---- MODULE Spec2Model ----
(***************************************************************************)
(* State-machine model of the Ayronia serverless handlers: register,       *)
(* resend-otp, verify-otp, login, request-password-reset, reset-password,  *)
(* auth-status, logout, admin users, admin bootstrap and orders, over the  *)
(* blob stores "users", "otp-codes", "password-reset-codes", "sessions"    *)
(* and "orders".  Every handler is one atomic action (sequential           *)
(* execution of requests); the last part of the module runs the handlers   *)
(* of the code flows one store call at a time, so that requests in flight  *)
(* interleave between their awaits.                                        *)
(*                                                                         *)
(* Strings the handlers transform (emails, codes, names) are sequences of  *)
(* one-character strings, so toLowerCase() and trim() are computed.        *)
(* Passwords are TLA+ strings (only their length and digest are used).     *)
(* Time is counted in minutes (MsPerUnit milliseconds per unit).  The      *)
(* createdAt / updatedAt timestamps, which no handler reads, are left out  *)
(* of the records.                                                         *)
(***************************************************************************)
EXTENDS Integers, Sequences, FiniteSets, TLC

VARIABLES
    users,      \* store "users":                key user:<email>    -> User
    otp,        \* store "otp-codes":            key otp:<email>     -> OTPData
    reset,      \* store "password-reset-codes": key reset:<email>   -> PasswordResetData
    sessions,   \* store "sessions":             key session:<token> -> Session
    orders,     \* store "orders":               key order:<orderNumber> -> Order
    customerOrders, \* store "orders":           key customer-orders:<email> -> orderNumber list
    now,        \* Date.now()
    ticks,      \* number of clock advances so far
    nextToken,  \* next value of generateSessionToken() / crypto.randomUUID()
    last,       \* the last request handled and the response it returned
    issued,     \* per purpose and email, the code most recently generated and mailed
    requests,   \* the requests in flight: per slot, the handler, its position and its locals
    history,    \* what happened to the code most recently issued, and the changes reported
    otpStore    \* per module (send-otp, verify-otp), its in-process map phone -> {code, expires}

orderVars == <<orders, customerOrders>>

flightVars == <<requests, history>>

\* what a handler that runs atomically leaves alone
envVars == <<now, ticks, flightVars, otpStore>>

vars == <<users, otp, reset, sessions, orderVars, envVars, nextToken, last, issued>>

stores == <<users, otp, reset, sessions, orders, customerOrders>>

-----------------------------------------------------------------------------
(* Bounds *)

MaxTicks == 1
MaxSessions == 2
MaxRoleSessions == 4
MaxOrders == 1
MaxRequests == 2

-----------------------------------------------------------------------------
(* Program constants *)

MsPerUnit == 60 * 1000
\* variant: the OTP lives as long as the reset code
OTP_TTL_HalfHour == (30 * 60 * 1000) \div MsPerUnit

OTP_TTL == (10 * 60 * 1000) \div MsPerUnit
RESET_TTL == (30 * 60 * 1000) \div MsPerUnit
SESSION_TTL == (7 * 24 * 60 * 60 * 1000) \div MsPerUnit
MAX_ATTEMPTS == 5
MIN_PASSWORD_LENGTH == 6

-----------------------------------------------------------------------------
(* Strings *)

LowerOf == ("A" :> "a") @@ ("X" :> "x") @@ ("C" :> "c") @@ ("R" :> "r")

isSpace(c) == c = " "

RECURSIVE trimStart(_)
trimStart(s) == IF s # <<>> /\ isSpace(Head(s)) THEN trimStart(Tail(s)) ELSE s

RECURSIVE trimEnd(_)
trimEnd(s) == IF s # <<>> /\ isSpace(s[Len(s)]) THEN trimEnd(SubSeq(s, 1, Len(s) - 1)) ELSE s

\* SHA-256 digest, hex-encoded: a collision-free function of the password
hashPassword(password) == <<"sha256", password>>

-----------------------------------------------------------------------------
(* Input domains *)

AnaEmail == <<"a", "@", "x", ".", "c">>
AdminEmail == <<"r", "@", "x", ".", "c">>

INITIAL_ADMIN_EMAILS == {AdminEmail}

\* what the clients type: "A@X.c" for the customer, "R@x.c" for the bootstrap admin
CustomerInput == <<"A", "@", "X", ".", "c">>
AdminInput == <<"R", "@", "x", ".", "c">>

Names == {<<"A", "n", "a">>}
Phones == {<<"8", "2">>}
Passwords == {"secret1", "hunter22"}

Code1 == <<"1", "2", "3", "4", "5", "6">>
Code2 == <<"6", "5", "4", "3", "2", "1">>

\* values Math.floor(100000 + Math.random() * 900000).toString() can return
Codes == {Code1, Code2}

SubmittedCodes == Codes \cup {<<" ">> \o Code1}

UserRoles == {"cliente", "administrador", "supervisor", "entregador"}
NoRole == "undefined"

Tokens == 1..MaxSessions
NoToken == 0


-----------------------------------------------------------------------------
(* String methods *)

lowerChar(c) == IF c \in DOMAIN LowerOf THEN LowerOf[c] ELSE c

RECURSIVE toLowerCase(_)
toLowerCase(s) == IF s = <<>> THEN <<>> ELSE <<lowerChar(Head(s))>> \o toLowerCase(Tail(s))

trim(s) == trimEnd(trimStart(s))

\* data.email.toLowerCase().trim()
\* variant: the whitespace is kept
normalizeEmail_NoTrim(s) == toLowerCase(s)

normalizeEmail(s) == trim(toLowerCase(s))

\* /^[^\s@]+@[^\s@]+\.[^\s@]+$/
emailRegex(s) ==
    /\ \A i \in 1..Len(s) : ~isSpace(s[i])
    /\ Cardinality({i \in 1..Len(s) : s[i] = "@"}) = 1
    /\ \E i \in 2..Len(s) : \E j \in (i + 2)..(Len(s) - 1) : s[i] = "@" /\ s[j] = "."

-----------------------------------------------------------------------------
(* Blob store operations *)

Has(store, key) == key \in DOMAIN store

setJSON(store, key, value) == [k \in DOMAIN store \cup {key} |-> IF k = key THEN value ELSE store[k]]

delete(store, key) == [k \in DOMAIN store \ {key} |-> store[k]]

EmptyStore == [k \in {} |-> 0]

\* store.get(key, { type: 'json' }): the record, or null (the empty set)
get(store, key) == IF Has(store, key) THEN {store[key]} ELSE {}

-----------------------------------------------------------------------------
(* Responses: the HTTP status, the class of the message, and the fields of   *)
(* the JSON body (email, remaining attempts, sessionToken) where present.    *)
(* bearer is the token the request carried; authenticated tells whether the  *)
(* handler accepted it as a valid session; key is the normalized email the   *)
(* handler worked on and password the password a login submitted; matched    *)
(* and expired tell, for a                                                   *)
(* verify that read a code record, whether the submitted code equalled the   *)
(* stored one and whether the record was past its expiry.                    *)

Response(op, key, email, status, kind) ==
    [op |-> op, key |-> key, password |-> "", email |-> email, status |-> status, kind |-> kind,
     matched |-> FALSE, expired |-> FALSE, remaining |-> -1,
     bearer |-> NoToken, authenticated |-> FALSE, sessionToken |-> NoToken,
     role |-> NoRole]

\* send-otp and verify-otp each declare their own module-level otpStore
PhoneModules == {"send-otp", "verify-otp"}

\* a slot with no request in flight
Idle ==
    [op |-> "idle", pc |-> "idle", purpose |-> "", key |-> <<>>, code |-> <<>>,
     password |-> "", kind |-> "None", data |-> {}, user |-> {}, stale |-> FALSE,
     bearer |-> NoToken, role |-> NoRole, orderNumber |-> ""]

Slots == 1..MaxRequests

\* guesses: comparisons that found the submitted code different from the stored
\* one; accepted: requests that ended in success; both since the last issue.
\* password, role: the new password and the new role of the user record that
\* an interleaved reset-password and role update last reported as stored.
NoHistory ==
    [guesses |-> [otp |-> 0, reset |-> 0], accepted |-> [otp |-> 0, reset |-> 0],
     password |-> "", role |-> NoRole]

Init ==
    /\ users = EmptyStore
    /\ otp = EmptyStore
    /\ reset = EmptyStore
    /\ sessions = EmptyStore
    /\ orders = EmptyStore
    /\ customerOrders = EmptyStore
    /\ now = 0
    /\ ticks = 0
    /\ nextToken = 1
    /\ last = Response("init", <<>>, <<>>, 0, "None")
    /\ issued = [otp |-> EmptyStore, reset |-> EmptyStore]
    /\ requests = [s \in Slots |-> Idle]
    /\ history = NoHistory
    /\ otpStore = [module \in PhoneModules |-> EmptyStore]

-----------------------------------------------------------------------------
(* Helpers shared by the handlers *)

\* variant: the allow-list is empty
isInitialAdmin_None(normalizedEmail) == FALSE

isInitialAdmin(normalizedEmail) ==
    \E adminEmail \in INITIAL_ADMIN_EMAILS : normalizeEmail(adminEmail) = normalizedEmail

\* variant: the attempts of the new record are not reset
newCodeData_Used(code, normalizedEmail, ttl) ==
    [code |-> code, email |-> normalizedEmail, expiresAt |-> now + ttl, attempts |-> 1]

\* { code, email, expiresAt: Date.now() + ttl, attempts: 0 }
newCodeData(code, normalizedEmail, ttl) ==
    [code |-> code, email |-> normalizedEmail, expiresAt |-> now + ttl, attempts |-> 0]

\* { userId, email, name, [role,] createdAt, expiresAt: Date.now() + 7 days }
newSession(user, role) ==
    [userId |-> user.id, email |-> user.email, name |-> user.name, role |-> role,
     expiresAt |-> now + SESSION_TTL]

\* the record of the codes mailed, after `code` was generated for `purpose` and the email
issue(purpose, normalizedEmail, code) ==
    [issued EXCEPT ![purpose] = setJSON(@, normalizedEmail, code)]

\* the response of a handler that read the code record `data` for the submitted `code`
CodeResponse(op, key, email, status, kind, data, code) ==
    [Response(op, key, email, status, kind) EXCEPT !.matched = (data.code = code),
                                              !.expired = (now > data.expiresAt)]

-----------------------------------------------------------------------------
(* POST /api/auth/register *)

\* crypto.randomUUID(): an id that no stored record carries (ids are only ever
\* compared for equality, so which unused id it is makes no difference)
randomUUID ==
    LET used == {users[k].id : k \in DOMAIN users} \cup {sessions[t].userId : t \in DOMAIN sessions}
                    \cup {u.id : u \in UNION {requests[s].user : s \in DOMAIN requests}}
    IN  CHOOSE id \in 1..(Cardinality(used) + 1) : id \notin used

\* variant: the role of the request body is taken when there is one
userRole_Supplied(normalizedEmail, role) ==
    IF role # NoRole THEN role
    ELSE IF isInitialAdmin(normalizedEmail) THEN "administrador" ELSE "cliente"

\* the role of the new user; `role` is the role field of the request body
userRole(normalizedEmail, role) ==
    IF isInitialAdmin(normalizedEmail) THEN "administrador" ELSE "cliente"

\* variant: the existing user is not looked at
existingUserVerified_Never(normalizedEmail) == FALSE

\* existingUser && existingUser.verified
existingUserVerified(normalizedEmail) ==
    Has(users, normalizedEmail) /\ users[normalizedEmail].verified

\* the response carries the role field of the request body
Register(name, email, phone, password, role, otpCode, emailSent) ==
    \E normalizedEmail \in {normalizeEmail(email)} :
    LET user == [id |-> randomUUID, name |-> trim(name), email |-> normalizedEmail,
                 phone |-> trim(phone), passwordHash |-> hashPassword(password),
                 verified |-> FALSE,
                 role |-> userRole(normalizedEmail, role)]
        R(email_, status, kind) == [Response("register", normalizedEmail, email_, status, kind)
                                      EXCEPT !.role = role]
    IN  /\ UNCHANGED <<reset, sessions, orderVars, envVars, nextToken>>
        /\ IF name = <<>> \/ email = <<>> \/ phone = <<>> \/ password = ""
           THEN /\ last' = R(<<>>, 400, "ValidationError")
                /\ UNCHANGED <<users, otp, issued>>
           ELSE IF ~emailRegex(email)
           THEN /\ last' = R(<<>>, 400, "ValidationError")
                /\ UNCHANGED <<users, otp, issued>>
           ELSE IF Len(password) < MIN_PASSWORD_LENGTH
           THEN /\ last' = R(<<>>, 400, "ValidationError")
                /\ UNCHANGED <<users, otp, issued>>
           ELSE IF existingUserVerified(normalizedEmail)
           THEN /\ last' = R(<<>>, 400, "EmailAlreadyRegistered")
                /\ UNCHANGED <<users, otp, issued>>
           ELSE /\ issued' = issue("otp", normalizedEmail, otpCode)
                /\ users' = setJSON(users, normalizedEmail, user)
                /\ otp' = setJSON(otp, normalizedEmail, newCodeData(otpCode, normalizedEmail, OTP_TTL))
                /\ last' = IF emailSent
                           THEN R(normalizedEmail, 200, "Ok")
                           ELSE R(<<>>, 500, "DependencyError")

-----------------------------------------------------------------------------
(* POST /api/auth/resend-otp: the two variants of the handler *)

ResendOtp(op, strict, email, otpCode, emailSent) ==
    \E normalizedEmail \in {normalizeEmail(email)} :
        /\ UNCHANGED <<users, reset, sessions, orderVars, envVars, nextToken>>
        /\ IF email = <<>>
           THEN /\ last' = Response(op, normalizedEmail, <<>>, 400, "ValidationError")
                /\ UNCHANGED <<otp, issued>>
           ELSE IF ~Has(users, normalizedEmail)
           THEN /\ last' = Response(op, normalizedEmail, <<>>, 400, "UserNotFound")
                /\ UNCHANGED <<otp, issued>>
           ELSE IF users[normalizedEmail].verified
           THEN /\ last' = Response(op, normalizedEmail, <<>>, 400, "AlreadyVerified")
                /\ UNCHANGED <<otp, issued>>
           ELSE /\ otp' = setJSON(otp, normalizedEmail, newCodeData(otpCode, normalizedEmail, OTP_TTL))
                /\ issued' = issue("otp", normalizedEmail, otpCode)
                /\ last' = IF strict /\ ~emailSent
                           THEN Response(op, normalizedEmail, <<>>, 500, "DependencyError")
                           ELSE Response(op, normalizedEmail, <<>>, 200, "Ok")

\* first variant: reports success whether or not the email was sent
ResendOtpA(email, otpCode, emailSent) == ResendOtp("resend-otp", FALSE, email, otpCode, emailSent)

\* second variant: a failed email send is a 500
ResendOtpB(email, otpCode, emailSent) == ResendOtp("resend-otp", TRUE, email, otpCode, emailSent)

-----------------------------------------------------------------------------
(* POST /api/auth/verify-otp *)

\* variant: the limit is compared with > instead of >=
otpAttemptsExhausted_Late(otpData) == otpData.attempts > MAX_ATTEMPTS

\* otpData.attempts >= 5
otpAttemptsExhausted(otpData) == otpData.attempts >= MAX_ATTEMPTS

\* Date.now() > otpData.expiresAt
otpExpired(otpData) == now > otpData.expiresAt

\* variant: the increment is left out
otpAfterMismatch_Same(otpData) == otpData

\* otpData.attempts += 1
otpAfterMismatch(otpData) == [otpData EXCEPT !.attempts = @ + 1]

\* variant: the flag is not set
verifiedUser_Unset(user) == user

\* user.verified = true
verifiedUser(user) == [user EXCEPT !.verified = TRUE]

\* the tests of verify-otp on the record read, in the order of the handler
otpVerdict(found, code) ==
    IF found = {} THEN "CodeNotFound"
    ELSE LET otpData == CHOOSE data \in found : TRUE
         IN  IF otpAttemptsExhausted(otpData) THEN "AttemptsExhausted"
             ELSE IF otpExpired(otpData) THEN "CodeExpired"
             ELSE IF otpData.code # trim(code) THEN "CodeMismatch"
             ELSE "Matched"

VerifyOtp(email, code) ==
    \E normalizedEmail \in {normalizeEmail(email)}, trimmedCode \in {trim(code)} :
    \E verdict \in {otpVerdict(get(otp, normalizedEmail), code)} :
    LET otpData == otp[normalizedEmail]
        user == users[normalizedEmail]
        R(status, kind) == CodeResponse("verify-otp", normalizedEmail, <<>>, status, kind, otpData, trimmedCode)
    IN  /\ UNCHANGED <<reset, orderVars, envVars, issued>>
        /\ IF email = <<>> \/ code = <<>>
           THEN /\ last' = Response("verify-otp", normalizedEmail, <<>>, 400, "ValidationError")
                /\ UNCHANGED <<users, otp, sessions, nextToken>>
           ELSE IF verdict = "CodeNotFound"
           THEN /\ last' = Response("verify-otp", normalizedEmail, <<>>, 400, "CodeNotFound")
                /\ UNCHANGED <<users, otp, sessions, nextToken>>
           ELSE IF verdict = "AttemptsExhausted"
           THEN /\ otp' = delete(otp, normalizedEmail)
                /\ last' = R(400, "AttemptsExhausted")
                /\ UNCHANGED <<users, sessions, nextToken>>
           ELSE IF verdict = "CodeExpired"
           THEN /\ otp' = delete(otp, normalizedEmail)
                /\ last' = R(400, "CodeExpired")
                /\ UNCHANGED <<users, sessions, nextToken>>
           ELSE IF verdict = "CodeMismatch"
           THEN /\ otp' = setJSON(otp, normalizedEmail, otpAfterMismatch(otpData))
                /\ last' = [R(400, "CodeMismatch") EXCEPT !.remaining = 5 - otpAfterMismatch(otpData).attempts]
                /\ UNCHANGED <<users, sessions, nextToken>>
           ELSE IF ~Has(users, normalizedEmail)
           THEN /\ last' = R(400, "UserNotFound")
                /\ UNCHANGED <<users, otp, sessions, nextToken>>
           ELSE /\ users' = setJSON(users, normalizedEmail, verifiedUser(user))
                /\ otp' = delete(otp, normalizedEmail)
                /\ sessions' = setJSON(sessions, nextToken, newSession(verifiedUser(user), NoRole))
                /\ nextToken' = nextToken + 1
                /\ last' = [R(200, "Ok") EXCEPT !.sessionToken = nextToken, !.email = user.email]

-----------------------------------------------------------------------------
(* POST /api/auth/request-password-reset *)

RequestPasswordReset(email, resetCode, emailSent) ==
    \E normalizedEmail \in {normalizeEmail(email)} :
        /\ UNCHANGED <<users, otp, sessions, orderVars, envVars, nextToken>>
        /\ IF email = <<>>
           THEN /\ last' = Response("request-password-reset", normalizedEmail, <<>>, 400, "ValidationError")
                /\ UNCHANGED <<reset, issued>>
           ELSE IF ~emailRegex(email)
           THEN /\ last' = Response("request-password-reset", normalizedEmail, <<>>, 400, "ValidationError")
                /\ UNCHANGED <<reset, issued>>
           ELSE IF ~Has(users, normalizedEmail)
           THEN /\ last' = Response("request-password-reset", normalizedEmail, <<>>, 200, "Ok")
                /\ UNCHANGED <<reset, issued>>
           ELSE IF ~users[normalizedEmail].verified
           THEN /\ last' = Response("request-password-reset", normalizedEmail, normalizedEmail, 400, "NotVerified")
                /\ UNCHANGED <<reset, issued>>
           ELSE /\ reset' = setJSON(reset, normalizedEmail, newCodeData(resetCode, normalizedEmail, RESET_TTL))
                /\ issued' = issue("reset", normalizedEmail, resetCode)
                /\ last' = IF emailSent
                           THEN Response("request-password-reset", normalizedEmail, normalizedEmail, 200, "Ok")
                           ELSE Response("request-password-reset", normalizedEmail, <<>>, 500, "DependencyError")

-----------------------------------------------------------------------------
(* POST /api/auth/reset-password *)

\* resetData.attempts >= 5
resetAttemptsExhausted(resetData) == resetData.attempts >= MAX_ATTEMPTS

\* variant: the comparison is reversed
resetExpired_Reversed(resetData) == now < resetData.expiresAt

\* Date.now() > resetData.expiresAt
resetExpired(resetData) == now > resetData.expiresAt

\* variant: the counter is decremented
resetAfterMismatch_Decrement(resetData) == [resetData EXCEPT !.attempts = @ - 1]

\* resetData.attempts += 1
resetAfterMismatch(resetData) == [resetData EXCEPT !.attempts = @ + 1]

\* variant: a code that was mailed as an OTP is accepted as well
resetCodeMismatch_Otp(resetData, code) ==
    /\ resetData.code # code
    /\ \A e \in DOMAIN issued["otp"] : issued["otp"][e] # code

\* resetData.code !== data.code
resetCodeMismatch(resetData, code) == resetData.code # code

\* variant: the stored hash is kept
withNewPassword_Kept(user, newPassword) == user

\* user.passwordHash = await hashPassword(data.newPassword)
withNewPassword(user, newPassword) == [user EXCEPT !.passwordHash = hashPassword(newPassword)]

\* the tests of reset-password on the record read, in the order of the handler
resetVerdict(found, code) ==
    IF found = {} THEN "CodeNotFound"
    ELSE LET resetData == CHOOSE data \in found : TRUE
         IN  IF resetAttemptsExhausted(resetData) THEN "AttemptsExhausted"
             ELSE IF resetExpired(resetData) THEN "CodeExpired"
             ELSE IF resetCodeMismatch(resetData, code) THEN "CodeMismatch"
             ELSE "Matched"

\* the response of a successful reset carries the new password of the request
ResetPassword(email, code, newPassword) ==
    \E normalizedEmail \in {normalizeEmail(email)} :
    \E verdict \in {resetVerdict(get(reset, normalizedEmail), code)} :
    LET resetData == reset[normalizedEmail]
        user == users[normalizedEmail]
        R(status, kind) == CodeResponse("reset-password", normalizedEmail, <<>>, status, kind, resetData, code)
    IN  /\ UNCHANGED <<otp, orderVars, envVars, issued>>
        /\ IF email = <<>> \/ code = <<>> \/ newPassword = ""
           THEN /\ last' = Response("reset-password", normalizedEmail, <<>>, 400, "ValidationError")
                /\ UNCHANGED <<users, reset, sessions, nextToken>>
           ELSE IF Len(newPassword) < MIN_PASSWORD_LENGTH
           THEN /\ last' = Response("reset-password", normalizedEmail, <<>>, 400, "ValidationError")
                /\ UNCHANGED <<users, reset, sessions, nextToken>>
           ELSE IF verdict = "CodeNotFound"
           THEN /\ last' = Response("reset-password", normalizedEmail, <<>>, 400, "CodeNotFound")
                /\ UNCHANGED <<users, reset, sessions, nextToken>>
           ELSE IF verdict = "AttemptsExhausted"
           THEN /\ reset' = delete(reset, normalizedEmail)
                /\ last' = R(400, "AttemptsExhausted")
                /\ UNCHANGED <<users, sessions, nextToken>>
           ELSE IF verdict = "CodeExpired"
           THEN /\ reset' = delete(reset, normalizedEmail)
                /\ last' = R(400, "CodeExpired")
                /\ UNCHANGED <<users, sessions, nextToken>>
           ELSE IF verdict = "CodeMismatch"
           THEN /\ reset' = setJSON(reset, normalizedEmail, resetAfterMismatch(resetData))
                /\ last' = [R(400, "CodeMismatch") EXCEPT !.remaining = 5 - resetAfterMismatch(resetData).attempts]
                /\ UNCHANGED <<users, sessions, nextToken>>
           ELSE IF ~Has(users, normalizedEmail)
           THEN /\ last' = R(400, "UserNotFound")
                /\ UNCHANGED <<users, reset, sessions, nextToken>>
           ELSE /\ users' = setJSON(users, normalizedEmail, withNewPassword(user, newPassword))
                /\ reset' = delete(reset, normalizedEmail)
                /\ sessions' = setJSON(sessions, nextToken, newSession(user, NoRole))
                /\ nextToken' = nextToken + 1
                /\ last' = [R(200, "Ok") EXCEPT !.sessionToken = nextToken, !.email = user.email,
                                                !.password = newPassword]

-----------------------------------------------------------------------------
(* POST /api/auth/login *)

\* variant: the negation is left out
needsVerification_Inverted(user) == user.verified

\* !user.verified
needsVerification(user) == ~user.verified

\* the response of a successful login carries the role read from the user record
Login(email, password) ==
    \E normalizedEmail \in {normalizeEmail(email)} :
    LET R(bodyEmail, status, kind) ==
            [Response("login", normalizedEmail, bodyEmail, status, kind) EXCEPT !.password = password]
        user == users[normalizedEmail]
        storedRole == IF user.role = NoRole THEN "cliente" ELSE user.role
        promote == isInitialAdmin(normalizedEmail) /\ storedRole # "administrador"
        effectiveRole == IF promote THEN "administrador" ELSE storedRole
        promoted == IF promote THEN [user EXCEPT !.role = "administrador"] ELSE user
    IN  /\ UNCHANGED <<otp, reset, orderVars, envVars, issued>>
        /\ IF email = <<>> \/ password = ""
           THEN /\ last' = R(<<>>, 400, "ValidationError")
                /\ UNCHANGED <<users, sessions, nextToken>>
           ELSE IF ~Has(users, normalizedEmail)
           THEN /\ last' = R(<<>>, 401, "InvalidCredentials")
                /\ UNCHANGED <<users, sessions, nextToken>>
           ELSE IF needsVerification(user)
           THEN /\ last' = R(normalizedEmail, 401, "NotVerified")
                /\ UNCHANGED <<users, sessions, nextToken>>
           ELSE IF hashPassword(password) # user.passwordHash
           THEN /\ last' = R(<<>>, 401, "InvalidCredentials")
                /\ UNCHANGED <<users, sessions, nextToken>>
           ELSE /\ users' = IF promote THEN setJSON(users, normalizedEmail, promoted) ELSE users
                /\ sessions' = setJSON(sessions, nextToken, newSession(promoted, effectiveRole))
                /\ nextToken' = nextToken + 1
                /\ last' = [R(user.email, 200, "Ok") EXCEPT !.sessionToken = nextToken,
                                                            !.role = storedRole]

-----------------------------------------------------------------------------
(* GET /api/auth/status *)

\* variant: the comparison is reversed
sessionExpired_Reversed(session) == now < session.expiresAt

\* Date.now() > session.expiresAt
sessionExpired(session) == now > session.expiresAt

AuthStatus(sessionToken) ==
    LET session == sessions[sessionToken]
        R(kind) == [Response("auth-status", <<>>, <<>>, 200, kind) EXCEPT !.bearer = sessionToken]
    IN  /\ UNCHANGED <<users, otp, reset, orderVars, envVars, nextToken, issued>>
        /\ IF sessionToken = NoToken
           THEN /\ last' = R("NoToken")
                /\ UNCHANGED sessions
           ELSE IF ~Has(sessions, sessionToken)
           THEN /\ last' = R("SessionNotFound")
                /\ UNCHANGED sessions
           ELSE IF sessionExpired(session)
           THEN /\ sessions' = delete(sessions, sessionToken)
                /\ last' = R("SessionExpired")
           ELSE /\ last' = [R("Ok") EXCEPT !.authenticated = TRUE, !.email = session.email]
                /\ UNCHANGED sessions

-----------------------------------------------------------------------------
(* POST /api/auth/logout *)

\* variant: a token without a stored session is answered with an error
Logout_Strict(sessionToken) ==
    /\ sessions' = IF sessionToken # NoToken THEN delete(sessions, sessionToken) ELSE sessions
    /\ last' = [Response("logout", <<>>, <<>>,
                         IF Has(sessions, sessionToken) THEN 200 ELSE 404,
                         IF Has(sessions, sessionToken) THEN "Ok" ELSE "SessionNotFound")
                  EXCEPT !.bearer = sessionToken]
    /\ UNCHANGED <<users, otp, reset, orderVars, envVars, nextToken, issued>>

Logout(sessionToken) ==
    /\ sessions' = IF sessionToken # NoToken THEN delete(sessions, sessionToken) ELSE sessions
    /\ last' = [Response("logout", <<>>, <<>>, 200, "Ok") EXCEPT !.bearer = sessionToken]
    /\ UNCHANGED <<users, otp, reset, orderVars, envVars, nextToken, issued>>

-----------------------------------------------------------------------------
(* /api/admin/users *)

\* variant: a supervisor is admitted as well
checkAdminAccess_Managers(sessionToken) ==
    IF sessionToken = NoToken THEN "NoToken"
    ELSE IF ~Has(sessions, sessionToken) THEN "SessionNotFound"
    ELSE IF now > sessions[sessionToken].expiresAt THEN "SessionExpired"
    ELSE IF sessions[sessionToken].role \notin {"administrador", "supervisor"} THEN "Forbidden"
    ELSE "Ok"

\* the result of checkAdminAccess: "Ok" or the reason of the refusal
checkAdminAccess(sessionToken) ==
    IF sessionToken = NoToken THEN "NoToken"
    ELSE IF ~Has(sessions, sessionToken) THEN "SessionNotFound"
    ELSE IF now > sessions[sessionToken].expiresAt THEN "SessionExpired"
    ELSE IF sessions[sessionToken].role # "administrador" THEN "Forbidden"
    ELSE "Ok"

\* variant: a session refused for its role is deleted as well
checkAdminAccessSessions_Forbidden(sessionToken) ==
    IF checkAdminAccess(sessionToken) \in {"SessionExpired", "Forbidden"}
    THEN delete(sessions, sessionToken)
    ELSE sessions

\* the sessions store after checkAdminAccess
checkAdminAccessSessions(sessionToken) ==
    IF checkAdminAccess(sessionToken) = "SessionExpired"
    THEN delete(sessions, sessionToken)
    ELSE sessions

\* variant: "root" is a valid role as well
validRoles_Open == UserRoles \cup {"root"}

validRoles == {"cliente", "administrador", "supervisor", "entregador"}

\* the response carries the role of the request body
AdminUsers(sessionToken, method, userEmail, role) ==
    \E normalizedEmail \in {normalizeEmail(userEmail)} :
    LET accessCheck == checkAdminAccess(sessionToken)
        user == users[normalizedEmail]
        R(status, kind) == [Response("admin-users", <<>>, <<>>, status, kind)
                              EXCEPT !.bearer = sessionToken,
                                     !.authenticated = accessCheck \in {"Ok", "Forbidden"},
                                     !.role = role]
    IN  /\ UNCHANGED <<otp, reset, orderVars, envVars, nextToken, issued>>
        /\ sessions' = checkAdminAccessSessions(sessionToken)
        /\ IF accessCheck # "Ok"
           THEN /\ last' = R(403, accessCheck)
                /\ UNCHANGED users
           ELSE IF method = "GET" /\ userEmail = <<>>
           THEN /\ last' = R(200, "Ok")
                /\ UNCHANGED users
           ELSE IF method = "GET"
           THEN /\ last' = IF Has(users, normalizedEmail)
                           THEN [R(200, "Ok") EXCEPT !.email = user.email]
                           ELSE R(404, "UserNotFound")
                /\ UNCHANGED users
           ELSE IF method = "PUT" /\ userEmail # <<>>
           THEN IF role = NoRole
                THEN /\ last' = R(400, "ValidationError")
                     /\ UNCHANGED users
                ELSE IF role \notin validRoles
                THEN /\ last' = R(400, "ValidationError")
                     /\ UNCHANGED users
                ELSE IF ~Has(users, normalizedEmail)
                THEN /\ last' = R(404, "UserNotFound")
                     /\ UNCHANGED users
                ELSE /\ users' = setJSON(users, normalizedEmail, [user EXCEPT !.role = role])
                     /\ last' = [R(200, "Ok") EXCEPT !.email = user.email]
           ELSE /\ last' = R(405, "MethodNotAllowed")
                /\ UNCHANGED users

-----------------------------------------------------------------------------
(* POST /api/admin/bootstrap *)

\* variant: every stored user is promoted
bootstrapUsers_Everyone(store, emails) ==
    [key \in DOMAIN store |-> [store[key] EXCEPT !.role = "administrador"]]

RECURSIVE bootstrapUsers(_, _)
bootstrapUsers(store, emails) ==
    IF emails = {} THEN store
    ELSE LET adminEmail == CHOOSE e \in emails : TRUE
             normalizedEmail == normalizeEmail(adminEmail)
             next == IF Has(store, normalizedEmail) /\ store[normalizedEmail].role # "administrador"
                     THEN setJSON(store, normalizedEmail,
                                  [store[normalizedEmail] EXCEPT !.role = "administrador"])
                     ELSE store
         IN  bootstrapUsers(next, emails \ {adminEmail})

AdminBootstrap ==
    /\ users' = bootstrapUsers(users, INITIAL_ADMIN_EMAILS)
    /\ last' = Response("admin-bootstrap", <<>>, <<>>, 200, "Ok")
    /\ UNCHANGED <<otp, reset, sessions, orderVars, envVars, nextToken, issued>>

-----------------------------------------------------------------------------
(* /api/orders *)

\* variant: the expiry of the session is not looked at
getSessionFromHeader_NoExpiry(token) ==
    IF token = NoToken THEN "Unauthorized"
    ELSE IF ~Has(sessions, token) THEN "Unauthorized"
    ELSE "Ok"

\* "Ok" when getSessionFromHeader returns the session, "Unauthorized" when it returns null
getSessionFromHeader(token) ==
    IF token = NoToken THEN "Unauthorized"
    ELSE IF ~Has(sessions, token) THEN "Unauthorized"
    ELSE IF sessions[token].expiresAt < now THEN "Unauthorized"
    ELSE "Ok"

\* variant: every role but cliente manages orders
canManageOrders_Staff(role) == role # "cliente"

canManageOrders(role) == role = "administrador" \/ role = "supervisor"

\* variant: every session counts as the owner's
isOwner_Any(order, session) == TRUE

isOwner(order, session) == toLowerCase(order.customerEmail) = toLowerCase(session.email)

\* variant: the confirmation marks the order as delivered as well
confirmedPayment_Delivered(order) ==
    [order EXCEPT !.paymentConfirmedByCustomer = TRUE, !.paymentStatus = "pago",
                  !.paidAt = now, !.orderStatus = "entregue"]

\* order.paymentConfirmedByCustomer = true; order.paymentStatus = "pago"; order.paidAt = now
confirmedPayment(order) ==
    [order EXCEPT !.paymentConfirmedByCustomer = TRUE, !.paymentStatus = "pago", !.paidAt = now]

\* the response carries the route and the order number of the request and,
\* for the list, the email whose customer-orders list was read
Orders(token, route, orderNumber, updates) ==
    LET check == getSessionFromHeader(token)
        session == sessions[token]
        order == orders[orderNumber]
        R(status, kind) == [Response("orders", <<route, orderNumber>>, <<>>, status, kind)
                              EXCEPT !.bearer = token, !.authenticated = (check = "Ok")]
        updated == [order EXCEPT
                      !.orderStatus = IF updates.orderStatus # "" THEN updates.orderStatus ELSE @,
                      !.paymentStatus = IF updates.paymentStatus # "" THEN updates.paymentStatus ELSE @,
                      !.paidAt = IF updates.paymentStatus \in {"confirmado", "pago"} THEN now ELSE @]
    IN  /\ UNCHANGED <<users, otp, reset, sessions, customerOrders, envVars, nextToken, issued>>
        /\ IF check # "Ok"
           THEN /\ last' = R(401, "Unauthorized")
                /\ UNCHANGED orders
           ELSE IF route = "list"
           THEN /\ last' = [R(200, "Ok") EXCEPT !.email = normalizeEmail(session.email)]
                /\ UNCHANGED orders
           ELSE IF route = "get"
           THEN /\ last' = IF ~Has(orders, orderNumber) THEN R(404, "OrderNotFound")
                           ELSE IF ~isOwner(order, session) /\ ~canManageOrders(session.role)
                                THEN R(403, "Forbidden")
                           ELSE R(200, "Ok")
                /\ UNCHANGED orders
           ELSE IF route = "confirm-payment"
           THEN IF ~Has(orders, orderNumber)
                THEN /\ last' = R(404, "OrderNotFound")
                     /\ UNCHANGED orders
                ELSE IF ~isOwner(order, session)
                THEN /\ last' = R(403, "Forbidden")
                     /\ UNCHANGED orders
                ELSE /\ orders' = setJSON(orders, orderNumber, confirmedPayment(order))
                     /\ last' = R(200, "Ok")
           ELSE IF route = "put"
           THEN IF ~canManageOrders(session.role)
                THEN /\ last' = R(403, "Forbidden")
                     /\ UNCHANGED orders
                ELSE IF ~Has(orders, orderNumber)
                THEN /\ last' = R(404, "OrderNotFound")
                     /\ UNCHANGED orders
                ELSE /\ orders' = setJSON(orders, orderNumber, updated)
                     /\ last' = R(200, "Ok")
           ELSE /\ last' = R(405, "MethodNotAllowed")
                /\ UNCHANGED orders

-----------------------------------------------------------------------------
(* POST /api/send-order (the variant that stores the order) *)

NoDate == -1

\* { ...orderData, paymentStatus, orderStatus, paymentConfirmedByCustomer: false }
newOrder(orderNumber, customerEmail) ==
    [orderNumber |-> orderNumber, customerEmail |-> customerEmail,
     paymentStatus |-> "aguardando_pagamento", orderStatus |-> "pendente",
     paidAt |-> NoDate, paymentConfirmedByCustomer |-> FALSE]

SendOrder(orderNumber, customerEmail) ==
    \E normalizedEmail \in {normalizeEmail(customerEmail)} :
    LET existingOrders == IF Has(customerOrders, normalizedEmail)
                          THEN customerOrders[normalizedEmail] ELSE <<>>
    IN  /\ Len(existingOrders) < MaxOrders
        /\ orders' = setJSON(orders, orderNumber, newOrder(orderNumber, customerEmail))
        /\ customerOrders' = setJSON(customerOrders, normalizedEmail,
                                     <<orderNumber>> \o existingOrders)
        /\ last' = Response("send-order", normalizedEmail, <<>>, 200, "Ok")
        /\ UNCHANGED <<users, otp, reset, sessions, envVars, nextToken, issued>>

-----------------------------------------------------------------------------
(* POST /api/send-otp and POST /api/verify-otp, the codes keyed by phone.  *)
(* Each of the two modules declares its own `const otpStore = {}`: the map  *)
(* send-otp writes is not the map verify-otp reads.                         *)

PHONE_OTP_TTL == (5 * 60 * 1000) \div MsPerUnit

\* the module whose otpStore the verify-otp handler reads and deletes from
verifyModule == "verify-otp"

\* otpStore[phone] = { code: otp, expires: Date.now() + 5 * 60 * 1000 }
SendOtp(phone, otpCode) ==
    /\ IF phone = <<>>
       THEN /\ last' = Response("send-otp", phone, <<>>, 400, "ValidationError")
            /\ UNCHANGED otpStore
       ELSE /\ otpStore' = [otpStore EXCEPT
                               !["send-otp"] = setJSON(@, phone,
                                   [code |-> otpCode, expires |-> now + PHONE_OTP_TTL])]
            /\ last' = Response("send-otp", phone, <<>>, 200, "Ok")
    /\ UNCHANGED <<stores, now, ticks, flightVars, nextToken, issued>>

VerifyPhoneOtp(phone, code) ==
    \E storedOTP \in {get(otpStore[verifyModule], phone)} :
    LET R(status, kind) == Response("verify-otp", phone, <<>>, status, kind)
        deleted == [otpStore EXCEPT ![verifyModule] = delete(@, phone)]
    IN  /\ UNCHANGED <<stores, now, ticks, flightVars, nextToken, issued>>
        /\ IF phone = <<>> \/ code = <<>>
           THEN /\ last' = R(400, "ValidationError")
                /\ UNCHANGED otpStore
           ELSE IF storedOTP = {}
           THEN /\ last' = R(400, "CodeNotFound")
                /\ UNCHANGED otpStore
           ELSE \E stored \in storedOTP :
                IF now > stored.expires
                THEN /\ otpStore' = deleted
                     /\ last' = [R(400, "CodeExpired") EXCEPT !.expired = TRUE]
                ELSE IF stored.code # code
                THEN /\ last' = R(400, "CodeMismatch")
                     /\ UNCHANGED otpStore
                ELSE /\ otpStore' = deleted
                     /\ last' = [R(200, "Ok") EXCEPT !.matched = TRUE]

-----------------------------------------------------------------------------
(* The clock.  The handlers read Date.now() only to compare it with a      *)
(* stored expiresAt or to compute a new one, so the clock is advanced onto  *)
(* the instants where such a comparison changes: an expiry instant of a     *)
(* stored record, and the instant just past it.                             *)

CodeExpiries ==
    {otp[k].expiresAt : k \in DOMAIN otp} \cup {reset[k].expiresAt : k \in DOMAIN reset}

SessionExpiries == {sessions[k].expiresAt : k \in DOMAIN sessions}

Instants(Expiries) == {t \in Expiries \cup {e + 1 : e \in Expiries} : t > now}

Tick(t) ==
    /\ ticks < MaxTicks
    /\ t > now
    /\ ticks' = ticks + 1
    /\ now' = t
    /\ last' = Response("tick", <<>>, <<>>, 0, "None")
    /\ UNCHANGED <<users, otp, reset, sessions, orderVars, nextToken, issued, flightVars, otpStore>>

-----------------------------------------------------------------------------
(* Request inputs *)

Bearers == {NoToken} \cup Tokens

RoleInputs == UserRoles \cup {NoRole, "root"}

OrderNumbers == {"AYR-1"}

OrderUpdates == {[orderStatus |-> "entregue", paymentStatus |-> ""]}

-----------------------------------------------------------------------------
(* The registration, login and password-reset requests of the customer, one *)
(* at a time                                                                 *)

Next ==
    \/ \E name \in Names, phone \in Phones, password \in Passwords, otpCode \in Codes,
          emailSent \in BOOLEAN :
          Register(name, CustomerInput, phone, password, NoRole, otpCode, emailSent)
    \/ \E otpCode \in Codes, emailSent \in BOOLEAN : ResendOtpA(CustomerInput, otpCode, emailSent)
    \/ \E otpCode \in Codes, emailSent \in BOOLEAN : ResendOtpB(CustomerInput, otpCode, emailSent)
    \/ nextToken <= MaxSessions /\ \E code \in SubmittedCodes : VerifyOtp(CustomerInput, code)
    \/ \E resetCode \in Codes, emailSent \in BOOLEAN :
          RequestPasswordReset(CustomerInput, resetCode, emailSent)
    \/ nextToken <= MaxSessions /\ \E code \in SubmittedCodes, newPassword \in Passwords :
          ResetPassword(CustomerInput, code, newPassword)
    \/ nextToken <= MaxSessions /\ \E password \in Passwords : Login(CustomerInput, password)
    \/ \E t \in Instants(CodeExpiries) : Tick(t)

Spec == Init /\ [][Next]_vars

-----------------------------------------------------------------------------
(* The session life of the bootstrap admin: registration, verification,     *)
(* login, and the requests that carry a bearer token                         *)

NextSession ==
    \/ \E name \in Names, phone \in Phones, password \in Passwords :
          Register(name, AdminInput, phone, password, NoRole, Code1, TRUE)
    \/ nextToken <= MaxSessions /\ VerifyOtp(AdminInput, Code1)
    \/ nextToken <= MaxSessions /\ \E password \in Passwords : Login(AdminInput, password)
    \/ \E token \in Bearers : AuthStatus(token)
    \/ \E token \in Bearers : Logout(token)
    \/ \E token \in Bearers, userEmail \in {<<>>, AdminInput} :
          AdminUsers(token, "GET", userEmail, NoRole)
    \/ \E token \in Bearers, role \in RoleInputs : AdminUsers(token, "PUT", AdminInput, role)
    \/ \E token \in Bearers : AdminUsers(token, "PUT", <<>>, NoRole)
    \/ AdminBootstrap
    \/ \E token \in Bearers, route \in {"list", "get", "confirm-payment", "put"},
          orderNumber \in OrderNumbers, updates \in OrderUpdates :
          Orders(token, route, orderNumber, updates)
    \/ \E t \in Instants(SessionExpiries) : Tick(t)

SpecSession == Init /\ [][NextSession]_vars

-----------------------------------------------------------------------------
(* Every operation that issues, reads or ends a session, or writes a user's  *)
(* role, for the bootstrap admin with one password: registration (none while *)
(* an OTP is outstanding), verification, login, password reset, role update, *)
(* bootstrap, status, logout, and the clock                                  *)

NextFrame ==
    \/ /\ ~Has(otp, normalizeEmail(AdminInput))
       /\ \E name \in Names, phone \in Phones :
             Register(name, AdminInput, phone, "secret1", NoRole, Code1, TRUE)
    \/ nextToken <= MaxSessions /\ VerifyOtp(AdminInput, Code1)
    \/ nextToken <= MaxSessions /\ Login(AdminInput, "secret1")
    \/ RequestPasswordReset(AdminInput, Code2, TRUE)
    \/ nextToken <= MaxSessions /\ ResetPassword(AdminInput, Code2, "secret1")
    \/ \E token \in Bearers : AuthStatus(token)
    \/ \E token \in Bearers : Logout(token)
    \/ \E token \in Bearers, role \in {"cliente", "administrador"} :
          AdminUsers(token, "PUT", AdminInput, role)
    \/ AdminBootstrap
    \/ \E t \in Instants(SessionExpiries) : Tick(t)

SpecFrame == Init /\ [][NextFrame]_vars

-----------------------------------------------------------------------------
(* Roles: the bootstrap admin and a customer register (once each, no        *)
(* registration while an OTP is outstanding), verify and log in; the users   *)
(* are listed and read and the role of the customer is changed.  The clock   *)
(* stands still.                                                             *)

RoleBearers == {NoToken} \cup (1..MaxRoleSessions)

SuppliedRoles == {NoRole, "administrador"}

NextRoles ==
    \/ \E email \in {AdminInput, CustomerInput}, name \in Names, phone \in Phones,
          role \in SuppliedRoles :
          /\ ~Has(otp, normalizeEmail(email))
          /\ Register(name, email, phone, "secret1", role, Code1, TRUE)
    \/ nextToken <= MaxRoleSessions /\ \E email \in {AdminInput, CustomerInput} : VerifyOtp(email, Code1)
    \/ nextToken <= MaxRoleSessions /\ \E email \in {AdminInput, CustomerInput} : Login(email, "secret1")
    \/ \E token \in RoleBearers, userEmail \in {<<>>, CustomerInput} :
          AdminUsers(token, "GET", userEmail, NoRole)
    \/ \E token \in RoleBearers, role \in RoleInputs : AdminUsers(token, "PUT", CustomerInput, role)
    \/ AdminBootstrap

SpecRoles == Init /\ [][NextRoles]_vars

-----------------------------------------------------------------------------
(* Orders: the same two users; the customer is made supervisor or           *)
(* entregador; an order of the customer is placed, read and updated.  The    *)
(* clock stands still.                                                       *)

NextOrders ==
    \/ \E email \in {AdminInput, CustomerInput}, name \in Names, phone \in Phones :
          /\ ~Has(otp, normalizeEmail(email))
          /\ Register(name, email, phone, "secret1", NoRole, Code1, TRUE)
    \/ nextToken <= MaxRoleSessions /\ \E email \in {AdminInput, CustomerInput} : VerifyOtp(email, Code1)
    \/ nextToken <= MaxRoleSessions /\ \E email \in {AdminInput, CustomerInput} : Login(email, "secret1")
    \/ \E token \in RoleBearers, role \in {"supervisor", "entregador"} :
          AdminUsers(token, "PUT", CustomerInput, role)
    \/ \E orderNumber \in OrderNumbers : SendOrder(orderNumber, CustomerInput)
    \/ \E token \in RoleBearers, route \in {"get", "put"}, orderNumber \in OrderNumbers,
          updates \in OrderUpdates : Orders(token, route, orderNumber, updates)

SpecOrders == Init /\ [][NextOrders]_vars

-----------------------------------------------------------------------------
(* Email keys: every request that takes an email, for the bootstrap admin,   *)
(* with the email typed in three ways that differ in letter case and in      *)
(* surrounding whitespace.  The clock stands still.                          *)

EmailVariants == {AdminEmail, AdminInput, <<" ">> \o AdminInput \o <<" ">>}

NextEmail ==
    \/ \E email \in EmailVariants, name \in Names, phone \in Phones :
          Register(name, email, phone, "secret1", NoRole, Code1, TRUE)
    \/ \E email \in EmailVariants : ResendOtpA(email, Code1, TRUE)
    \/ \E email \in EmailVariants : ResendOtpB(email, Code1, TRUE)
    \/ nextToken <= MaxSessions /\ \E email \in EmailVariants : VerifyOtp(email, Code1)
    \/ nextToken <= MaxSessions /\ \E email \in EmailVariants : Login(email, "secret1")
    \/ \E email \in EmailVariants : RequestPasswordReset(email, Code2, TRUE)
    \/ nextToken <= MaxSessions /\ \E email \in EmailVariants : ResetPassword(email, Code2, "secret1")
    \/ \E token \in Bearers, email \in EmailVariants : AdminUsers(token, "GET", email, NoRole)
    \/ \E token \in Bearers, email \in EmailVariants : AdminUsers(token, "PUT", email, "supervisor")
    \/ \E orderNumber \in OrderNumbers, email \in EmailVariants : SendOrder(orderNumber, email)
    \/ \E token \in Bearers, orderNumber \in OrderNumbers, updates \in OrderUpdates :
          Orders(token, "list", orderNumber, updates)

SpecEmail == Init /\ [][NextEmail]_vars

-----------------------------------------------------------------------------
(* Promotion: the bootstrap admin and a customer register (once each, no     *)
(* registration while an OTP is outstanding), verify and log in; the role of *)
(* either is changed, the admin's included.  The clock stands still.         *)

NextPromotion ==
    \/ \E email \in {AdminInput, CustomerInput}, name \in Names, phone \in Phones :
          /\ ~Has(otp, normalizeEmail(email))
          /\ Register(name, email, phone, "secret1", NoRole, Code1, TRUE)
    \/ nextToken <= MaxRoleSessions /\ \E email \in {AdminInput, CustomerInput} : VerifyOtp(email, Code1)
    \/ nextToken <= MaxRoleSessions /\ \E email \in {AdminInput, CustomerInput} : Login(email, "secret1")
    \/ \E token \in RoleBearers, email \in {AdminInput, CustomerInput}, role \in {"cliente", "supervisor"} :
          AdminUsers(token, "PUT", email, role)
    \/ AdminBootstrap

SpecPromotion == Init /\ [][NextPromotion]_vars

-----------------------------------------------------------------------------
(* Password reset: the customer registers with one password, verifies, asks  *)
(* for reset codes, resets the password with a right or a wrong code and     *)
(* logs in with the old or the new password                                  *)

NextReset ==
    \/ /\ ~Has(otp, normalizeEmail(CustomerInput))
       /\ \E name \in Names, phone \in Phones :
             Register(name, CustomerInput, phone, "secret1", NoRole, Code1, TRUE)
    \/ nextToken <= MaxRoleSessions /\ VerifyOtp(CustomerInput, Code1)
    \/ RequestPasswordReset(CustomerInput, Code2, TRUE)
    \/ nextToken <= MaxRoleSessions /\ \E code \in Codes, newPassword \in Passwords :
          ResetPassword(CustomerInput, code, newPassword)
    \/ nextToken <= MaxRoleSessions /\ \E password \in Passwords : Login(CustomerInput, password)
    \/ \E t \in Instants(CodeExpiries) : Tick(t)

SpecReset == Init /\ [][NextReset]_vars

-----------------------------------------------------------------------------
(* Properties.  A step of a handler is recognised by the request recorded   *)
(* in last': its op and the normalized email (key) or bearer token it       *)
(* carried.  Unprimed stores are the stores the handler found.              *)

\* the request reached the verify procedure on a stored code record
VerifyCall(op, store) ==
    /\ last'.op = op
    /\ last'.kind # "ValidationError"
    /\ Has(store, last'.key)

NothingGranted ==
    /\ users' = users
    /\ sessions' = sessions
    /\ last'.sessionToken = NoToken

C1_Step(op, store, storeNext) ==
    (VerifyCall(op, store) /\ store[last'.key].attempts >= 5)
        => /\ last'.kind = "AttemptsExhausted"
           /\ last'.status = 400
           /\ ~Has(storeNext, last'.key)
           /\ NothingGranted

\* C1: in verify-otp and in reset-password, a verify call that finds the stored
\* record with attempts >= 5 fails with AttemptsExhausted and deletes the record,
\* whatever code was submitted and whether or not the record has expired; it
\* changes no user and creates no session.
C1_ExhaustedRecordIsRejected ==
    [][C1_Step("verify-otp", otp, otp') /\ C1_Step("reset-password", reset, reset')]_vars

\* C1 case: verify-otp answered AttemptsExhausted to a submission of the stored
\* code on an unexpired record, and the record is gone
C1_Witness ==
    /\ last.op = "verify-otp"
    /\ last.kind = "AttemptsExhausted"
    /\ last.matched
    /\ ~last.expired
    /\ ~Has(otp, last.key)

C2_Step(op, store, storeNext) ==
    (VerifyCall(op, store) /\ now > store[last'.key].expiresAt)
        => /\ last'.kind = IF store[last'.key].attempts >= 5
                           THEN "AttemptsExhausted" ELSE "CodeExpired"
           /\ last'.status = 400
           /\ ~Has(storeNext, last'.key)
           /\ NothingGranted

\* C2: a verify call (OTP or reset) on a record with now > expiresAt never
\* succeeds: it deletes the record and fails with CodeExpired when attempts < 5,
\* with AttemptsExhausted when attempts >= 5, whether or not the submitted code
\* matches.
C2_ExpiredRecordNeverVerifies ==
    [][C2_Step("verify-otp", otp, otp') /\ C2_Step("reset-password", reset, reset')]_vars

\* C2 case: reset-password answered CodeExpired to a submission of the stored code
C2_Witness ==
    /\ last.op = "reset-password"
    /\ last.kind = "CodeExpired"
    /\ last.matched
    /\ last.expired
    /\ ~Has(reset, last.key)

C3_Step(op, store, storeNext) ==
    (/\ VerifyCall(op, store)
     /\ store[last'.key].attempts < 5
     /\ now <= store[last'.key].expiresAt
     /\ ~last'.matched)
        => /\ last'.kind = "CodeMismatch"
           /\ Has(storeNext, last'.key)
           /\ storeNext[last'.key] = [store[last'.key] EXCEPT !.attempts = @ + 1]
           /\ last'.remaining = 5 - storeNext[last'.key].attempts
           /\ NothingGranted

\* C3: a verify call on an unexpired record with attempts < 5 whose submitted
\* code does not match increases the stored attempts by exactly 1, leaves code
\* and expiresAt unchanged and the record in the store, reports remaining =
\* 5 - (new attempts), and changes no user and no session.
C3_MismatchCountsOneAttempt ==
    [][C3_Step("verify-otp", otp, otp') /\ C3_Step("reset-password", reset, reset')]_vars

\* C3 case: the fifth mismatch of verify-otp, reported with 0 attempts remaining
C3_Witness ==
    /\ last.op = "verify-otp"
    /\ last.kind = "CodeMismatch"
    /\ last.remaining = 0
    /\ Has(otp, last.key)
    /\ otp[last.key].attempts = 5

C4_NoDecrease(store, storeNext) ==
    \A e \in DOMAIN store \cap DOMAIN storeNext : storeNext[e].attempts >= store[e].attempts

\* C4 as stated: while a code key stays present, no step lowers its attempts
C4_AttemptsNeverDecrease ==
    [][C4_NoDecrease(otp, otp') /\ C4_NoDecrease(reset, reset')]_vars

C4_OnlyIssueLowers(purpose, ops, store, storeNext, ttl) ==
    \A e \in DOMAIN store \cap DOMAIN storeNext :
        storeNext[e].attempts < store[e].attempts
            => /\ last'.op \in ops
               /\ last'.key = e
               /\ storeNext[e] = [code |-> issued'[purpose][e], email |-> e,
                                  expiresAt |-> now + ttl, attempts |-> 0]

\* C4 (amended): while a code key stays present, its attempts are lowered only
\* by an issue (register or resend-otp for the OTP, request-password-reset for
\* the reset code), which replaces the record by the newly issued code with
\* attempts 0; verify-otp and reset-password never lower them.
C4_AttemptsLoweredOnlyByIssue ==
    [][/\ C4_OnlyIssueLowers("otp", {"register", "resend-otp"}, otp, otp', OTP_TTL)
       /\ C4_OnlyIssueLowers("reset", {"request-password-reset"}, reset, reset', RESET_TTL)]_vars

\* C4 case: reset-password counted a second mismatch on a record that stayed
C4_Witness ==
    /\ last.op = "reset-password"
    /\ last.kind = "CodeMismatch"
    /\ Has(reset, last.key)
    /\ reset[last.key].attempts >= 2

OtpIssued == last'.op \in {"register", "resend-otp"} /\ last'.kind \in {"Ok", "DependencyError"}

\* C5: after register or resend-otp issued a new OTP, the one OTP record of the
\* email holds the newest code with attempts 0 and a fresh expiry; the stored
\* code is always the most recently issued one, so verify-otp succeeds only on
\* a submission matching the most recently issued code, and a submission that
\* differs from it (an older code) on a live record is a CodeMismatch.
C5_OnlyNewestCodeVerifies ==
    [][/\ OtpIssued
            => /\ Has(otp', last'.key)
               /\ otp'[last'.key] = [code |-> issued'.otp[last'.key], email |-> last'.key,
                                     expiresAt |-> now + OTP_TTL, attempts |-> 0]
       /\ \A e \in DOMAIN otp' : Has(issued'.otp, e) /\ otp'[e].code = issued'.otp[e]
       /\ (last'.op = "verify-otp" /\ last'.kind = "Ok")
            => /\ Has(otp, last'.key)
               /\ last'.matched
               /\ otp[last'.key].code = issued.otp[last'.key]
       /\ (/\ VerifyCall("verify-otp", otp)
           /\ ~last'.matched
           /\ otp[last'.key].attempts < 5
           /\ now <= otp[last'.key].expiresAt)
            => /\ last'.kind = "CodeMismatch"
               /\ users' = users]_vars

\* C5 case: an OTP issued after the clock had advanced (so a later issue than
\* the registration's) holds Code2, and a submission of the other code failed
\* as a mismatch
C5_Witness ==
    /\ last.op = "verify-otp"
    /\ last.kind = "CodeMismatch"
    /\ now > 0
    /\ Has(otp, last.key)
    /\ otp[last.key].expiresAt = now + OTP_TTL
    /\ otp[last.key].code = Code2
    /\ issued.otp[last.key] = Code2
    /\ ~users[last.key].verified

\* C6: verify-otp called with the stored code on an unexpired OTP record with
\* attempts < 5 succeeds: the user of the email gets verified = true with every
\* other field (and every other user) unchanged, the OTP record is deleted, and
\* exactly one new session, for that user, is stored and its token returned.
C6_VerifySucceeds ==
    [][(/\ VerifyCall("verify-otp", otp)
        /\ otp[last'.key].attempts < 5
        /\ now <= otp[last'.key].expiresAt
        /\ last'.matched)
            => /\ last'.kind = "Ok"
               /\ last'.status = 200
               /\ Has(users, last'.key)
               /\ users' = [users EXCEPT ![last'.key].verified = TRUE]
               /\ ~Has(otp', last'.key)
               /\ ~Has(sessions, last'.sessionToken)
               /\ DOMAIN sessions' = DOMAIN sessions \cup {last'.sessionToken}
               /\ \A t \in DOMAIN sessions : sessions'[t] = sessions[t]
               /\ sessions'[last'.sessionToken].userId = users[last'.key].id
               /\ sessions'[last'.sessionToken].email = last'.key
               /\ sessions'[last'.sessionToken].expiresAt = now + SESSION_TTL]_vars

\* C6 case: verify-otp succeeded; the user is verified and holds the session
C6_Witness ==
    /\ last.op = "verify-otp"
    /\ last.kind = "Ok"
    /\ users[last.key].verified
    /\ ~Has(otp, last.key)
    /\ Has(sessions, last.sessionToken)
    /\ sessions[last.sessionToken].userId = users[last.key].id

\* C7: login for an existing user with verified = false and the correct password
\* fails with NotVerified (never InvalidCredentials) and creates no session.
C7_UnverifiedLoginNotVerified ==
    [][(/\ last'.op = "login"
        /\ Has(users, last'.key)
        /\ ~users[last'.key].verified
        /\ hashPassword(last'.password) = users[last'.key].passwordHash)
            => /\ last'.kind = "NotVerified"
               /\ last'.status = 401
               /\ NothingGranted]_vars

\* C7 case: login answered NotVerified to the correct password
C7_Witness ==
    /\ last.op = "login"
    /\ last.kind = "NotVerified"
    /\ Has(users, last.key)
    /\ ~users[last.key].verified
    /\ hashPassword(last.password) = users[last.key].passwordHash

\* C8: a login whose password does not match (or whose email has no user) gets
\* the same InvalidCredentials answer whether the user is absent, verified or
\* unverified.  (A failed login changes no user, so the user record read here
\* is the one the handler found.)
C8_WrongPasswordIndistinguishable ==
    (/\ last.op = "login"
     /\ last.kind # "ValidationError"
     /\ \/ ~Has(users, last.key)
        \/ hashPassword(last.password) # users[last.key].passwordHash)
        => /\ last.kind = "InvalidCredentials"
           /\ last.status = 401
           /\ last.email = <<>>

SessionOps == {"auth-status", "admin-users", "orders"}

\* the request carried the token of a stored session with expiresAt < now
ExpiredBearer ==
    /\ last'.op \in SessionOps
    /\ Has(sessions, last'.bearer)
    /\ sessions[last'.bearer].expiresAt < now

\* C9: auth status, admin user management and orders never treat a token as
\* authenticated when its session record has expiresAt < now: the request is
\* refused as expired / unauthorized, returns no user data, reaches no role
\* decision and changes neither users nor orders.
C9_ExpiredSessionNeverAuthenticates ==
    [][ExpiredBearer
            => /\ ~last'.authenticated
               /\ last'.kind \in {"SessionExpired", "Unauthorized"}
               /\ last'.email = <<>>
               /\ users' = users
               /\ orders' = orders
               /\ customerOrders' = customerOrders]_vars

\* C9 case: orders refused the token of a stored session that has expired
C9_Witness ==
    /\ last.op = "orders"
    /\ last.kind = "Unauthorized"
    /\ Has(sessions, last.bearer)
    /\ sessions[last.bearer].expiresAt < now

\* C10: whenever auth status, checkAdminAccess or getSessionFromHeader rejects
\* a token because its session is expired, the session record is deleted by
\* that same call.
C10_ExpiredSessionEvicted ==
    [][(ExpiredBearer /\ ~last'.authenticated) => ~Has(sessions', last'.bearer)]_vars

\* the token was handed out earlier and its session is gone or past its expiry
Ended(t) == t < nextToken /\ (~Has(sessions, t) \/ sessions[t].expiresAt < now)

\* C11 as stated: a session never returns to Active: a token that was revoked
\* by logout or whose session is past its expiry stays so through every later
\* step and is accepted by no endpoint; and an endpoint accepts a token only
\* while now has not reached the expiresAt of its session.
C11_SessionNeverActiveAgain ==
    [][/\ \A t \in Tokens :
            Ended(t) => /\ Ended(t)'
                        /\ ~(last'.bearer = t /\ last'.authenticated)
       /\ last'.authenticated
            => /\ Has(sessions, last'.bearer)
               /\ now < sessions[last'.bearer].expiresAt]_vars

\* C11 (amended): a token that was revoked by logout or whose session is past
\* its expiry (expiresAt < now) stays so through every later step (login,
\* verification, role update, further requests) and is accepted by no
\* endpoint; an endpoint accepts a token only while its session is stored and
\* now <= expiresAt.
C11_EndedSessionStaysEnded ==
    [][/\ \A t \in Tokens :
            Ended(t) => /\ Ended(t)'
                        /\ ~(last'.bearer = t /\ last'.authenticated)
       /\ last'.authenticated
            => /\ Has(sessions, last'.bearer)
               /\ now <= sessions[last'.bearer].expiresAt]_vars

\* C11 case: a request was accepted at the very instant its session expires
C11_Witness ==
    /\ last.authenticated
    /\ Has(sessions, last.bearer)
    /\ now = sessions[last.bearer].expiresAt

\* C12: logout always answers success; with no token, or with a token whose
\* session is absent, it leaves every store unchanged; otherwise it removes
\* exactly the session of the token, so that a second logout with the same
\* token finds it absent and changes nothing.
C12_LogoutIdempotent ==
    [][last'.op = "logout"
            => /\ last'.status = 200
               /\ last'.kind = "Ok"
               /\ UNCHANGED <<users, otp, reset, orders, customerOrders>>
               /\ sessions' = delete(sessions, last'.bearer)
               /\ ~Has(sessions, last'.bearer) => sessions' = sessions
               /\ ~Has(sessions', last'.bearer)
               /\ delete(sessions', last'.bearer) = sessions']_vars

\* C12 case: logout with a token that was revoked or evicted before, while
\* another session is stored
C12_Witness ==
    /\ last.op = "logout"
    /\ last.bearer # NoToken
    /\ last.bearer < nextToken
    /\ ~Has(sessions, last.bearer)
    /\ sessions # EmptyStore

-----------------------------------------------------------------------------
\* a stored session record is the same after the step
Kept(t) == Has(sessions', t) /\ sessions'[t] = sessions[t]

\* the step is a logout carrying the token
LoggedOut(t) == last'.op = "logout" /\ last'.bearer = t /\ ~Has(sessions', t)

\* the step is a session check that found the token's session past its expiry
Evicted(t) ==
    /\ last'.op \in {"auth-status", "admin-users"}
    /\ last'.bearer = t
    /\ now > sessions[t].expiresAt
    /\ ~Has(sessions', t)

\* the operations that write a user or issue a session
UserWrites == {"register", "verify-otp", "login", "reset-password", "admin-users", "admin-bootstrap"}

\* C13: a stored session record is changed only by a logout carrying its own
\* token or by the eviction of a check that finds it expired, and each of
\* these removes it; a role update, the bootstrap, a login (promotion
\* included), a verification and a password reset that succeed leave every
\* session issued before, its role included, as it was.
C13_SessionFrame ==
    [][ /\ \A t \in DOMAIN sessions : Kept(t) \/ LoggedOut(t) \/ Evicted(t)
        /\ (last'.op \in UserWrites /\ last'.status = 200)
              => \A t \in DOMAIN sessions : Kept(t) ]_vars

\* an admin session still carries administrador after the user's role was set
\* to cliente
C13_Witness ==
    /\ last.op = "admin-users"
    /\ last.status = 200
    /\ \E e \in DOMAIN users : users[e].role = "cliente"
    /\ \E t \in DOMAIN sessions : sessions[t].role = "administrador"

-----------------------------------------------------------------------------
\* the sessions written by the step
Written == DOMAIN sessions' \ DOMAIN sessions

\* C14: every session written by login, verify-otp or reset-password carries
\* the role the user record has at that moment; a session issued to an
\* administrador is an administrador session.  (Violated: verify-otp and
\* reset-password write the session without a role.)
C14_SessionCarriesRole ==
    [][ \A t \in Written :
            \E e \in DOMAIN users' :
                /\ users'[e].id = sessions'[t].userId
                /\ sessions'[t].role = users'[e].role ]_vars

-----------------------------------------------------------------------------
\* the token names a stored session that has not expired and whose role is
\* exactly administrador
AdminSession(t) ==
    /\ t # NoToken
    /\ Has(sessions, t)
    /\ now <= sessions[t].expiresAt
    /\ sessions[t].role = "administrador"

-----------------------------------------------------------------------------
\* the step is a request of the orders handler on `route` whose session check passed
OrdersStep(route) ==
    /\ last'.op = "orders"
    /\ last'.key[1] = route
    /\ last'.authenticated

Managers == {"administrador", "supervisor"}

\* C16: the PUT on an order is applied only for a valid session whose role is
\* administrador or supervisor: for any other role (cliente, entregador, none)
\* the answer is Forbidden and the orders are unchanged, and for a supervisor
\* the update of a stored order is written.
C16_OrderUpdateGate ==
    [][ OrdersStep("put") =>
          LET role == sessions[last'.bearer].role
              orderNumber == last'.key[2]
          IN  /\ role \notin Managers => /\ last'.status = 403
                                         /\ last'.kind = "Forbidden"
                                         /\ orders' = orders
              /\ orders' # orders => role \in Managers
              /\ (role \in Managers /\ Has(orders, orderNumber))
                    => /\ last'.status = 200
                       /\ orders'[orderNumber].orderStatus = "entregue" ]_vars

\* the PUT of an entregador on a stored order was refused
C16_Witness ==
    /\ last.op = "orders"
    /\ last.key[1] = "put"
    /\ last.kind = "Forbidden"
    /\ sessions[last.bearer].role = "entregador"
    /\ Has(orders, last.key[2])

\* C17: a stored order is returned to a valid session only when the session's
\* email is the order's customer email (compared without regard to case) or
\* its role is administrador or supervisor; any other valid session gets
\* Forbidden.
C17_OrderReadGate ==
    [][ (OrdersStep("get") /\ Has(orders, last'.key[2])) =>
          LET session == sessions[last'.bearer]
              order == orders[last'.key[2]]
              allowed == \/ toLowerCase(session.email) = toLowerCase(order.customerEmail)
                         \/ session.role \in Managers
          IN  /\ last'.status = 200 => allowed
              /\ ~allowed => last'.status = 403 /\ last'.kind = "Forbidden"
              /\ orders' = orders ]_vars

\* a valid session of another user, without a managing role, was refused the order
C17_Witness ==
    /\ last.op = "orders"
    /\ last.key[1] = "get"
    /\ last.kind = "Forbidden"
    /\ Has(orders, last.key[2])
    /\ sessions[last.bearer].email # toLowerCase(orders[last.key[2]].customerEmail)

-----------------------------------------------------------------------------
\* C18: the role of every stored user is one of cliente, administrador,
\* supervisor, entregador; a role update whose role is outside the set leaves
\* the users as they were and, when the caller is admitted, is answered with a
\* validation error; no step writes a role outside the set.
C18_RolesClosed ==
    [][ /\ \A e \in DOMAIN users' : users'[e].role \in UserRoles
        /\ (last'.op = "admin-users" /\ last'.role \notin UserRoles) => users' = users
        /\ (last'.op = "admin-users" /\ last'.role \notin UserRoles \cup {NoRole})
              => /\ last'.status \in {400, 403}
                 /\ AdminSession(last'.bearer) => /\ last'.status = 400
                                                  /\ last'.kind = "ValidationError" ]_vars

\* an administrador asked for the role "root" and was answered with a
\* validation error
C18_Witness ==
    /\ last.op = "admin-users"
    /\ last.role = "root"
    /\ last.kind = "ValidationError"
    /\ \E e \in DOMAIN users : users[e].role = "cliente"

\* the normalized emails of the bootstrap allow-list
AllowList == {normalizeEmail(adminEmail) : adminEmail \in INITIAL_ADMIN_EMAILS}

\* C19: a registration stores the role administrador if and only if the
\* normalized email is on the bootstrap allow-list, and cliente otherwise,
\* whatever role the request body carries: the role stored by a register
\* step with one supplied role is the role the same request stores with any
\* other supplied role.
C19_RoleFromAllowList ==
    [][ last'.op = "register" =>
          /\ users' # users =>
                users'[last'.key].role = IF last'.key \in AllowList THEN "administrador"
                                         ELSE "cliente"
          /\ \A email \in {AdminInput, CustomerInput}, name \in Names, phone \in Phones,
                role1, role2 \in SuppliedRoles :
                (/\ Register(name, email, phone, "secret1", role1, Code1, TRUE)
                 /\ users' # users)
                   => users'[normalizeEmail(email)].role
                         = userRole(normalizeEmail(email), role2) ]_vars

\* the customer supplied the role administrador and is stored as cliente
C19_Witness ==
    /\ last.op = "register"
    /\ last.status = 200
    /\ last.role = "administrador"
    /\ last.key \notin AllowList
    /\ users[last.key].role = "cliente"

\* C20: a registration for an email whose user is verified is answered
\* EmailAlreadyRegistered and leaves the user record, the OTP store and the
\* session store as they were.
C20_VerifiedUserKept ==
    [][ (/\ last'.op = "register"
         /\ Has(users, last'.key)
         /\ users[last'.key].verified)
          => /\ last'.status = 400
             /\ last'.kind = "EmailAlreadyRegistered"
             /\ UNCHANGED <<users, otp, sessions, reset, issued>> ]_vars

\* a verified user holding a session registered again
C20_Witness ==
    /\ last.op = "register"
    /\ last.kind = "EmailAlreadyRegistered"
    /\ users[last.key].verified
    /\ \E t \in DOMAIN sessions : sessions[t].email = last.key

-----------------------------------------------------------------------------
\* ten minutes, in the unit of the clock
TenMinutes == (10 * 60 * 1000) \div MsPerUnit

\* C21: a register request that passes validation, for an email without a
\* verified user, stores the user under the lowercased and trimmed email
\* with verified = false, stores an OTP record for that email with
\* attempts = 0 and expiresAt = now + 10 minutes, and creates no session.
C21_RegisterStoresUserAndOtp ==
    [][ (/\ last'.op = "register"
         /\ last'.kind # "ValidationError"
         /\ ~(Has(users, last'.key) /\ users[last'.key].verified))
          => /\ last'.key = normalizeEmail(CustomerInput)
             /\ Has(users', last'.key)
             /\ users'[last'.key].email = last'.key
             /\ users'[last'.key].verified = FALSE
             /\ Has(otp', last'.key)
             /\ otp'[last'.key].attempts = 0
             /\ otp'[last'.key].expiresAt = now + TenMinutes
             /\ otp'[last'.key].code \in Codes
             /\ sessions' = sessions
             /\ nextToken' = nextToken ]_vars

\* a registration after the clock has advanced
C21_Witness ==
    /\ last.op = "register"
    /\ last.status = 200
    /\ last.key # CustomerInput
    /\ ~users[last.key].verified
    /\ otp[last.key].attempts = 0
    /\ otp[last.key].expiresAt = now + TenMinutes
    /\ now > 0

-----------------------------------------------------------------------------
\* the keys of the records that are stored under an email
EmailKeys(u, o, r, c) == DOMAIN u \cup DOMAIN o \cup DOMAIN r \cup DOMAIN c

\* the operations whose request carries an email
EmailOps == {"register", "resend-otp", "verify-otp", "login",
             "request-password-reset", "reset-password", "send-order"}

\* the spellings that pass the test of the email shape
WellFormed == {email \in EmailVariants : emailRegex(email)}

\* the step is the request H with every spelling of the email, or with none
AllOrNone(H(_), spellings) ==
    \/ \A email \in spellings : H(email)
    \/ \A email \in spellings : ~H(email)

\* a request is the same step however its email is typed
SameStep ==
    /\ last'.op = "register" =>
          \A name \in Names, phone \in Phones :
             LET H(email) == Register(name, email, phone, "secret1", NoRole, Code1, TRUE)
             IN  AllOrNone(H, WellFormed)
    /\ last'.op = "resend-otp" =>
          LET A(email) == ResendOtpA(email, Code1, TRUE)
              B(email) == ResendOtpB(email, Code1, TRUE)
          IN  AllOrNone(A, EmailVariants) /\ AllOrNone(B, EmailVariants)
    /\ last'.op = "verify-otp" =>
          LET H(email) == VerifyOtp(email, Code1)
          IN  AllOrNone(H, EmailVariants)
    /\ last'.op = "login" =>
          LET H(email) == Login(email, "secret1")
          IN  AllOrNone(H, EmailVariants)
    /\ last'.op = "request-password-reset" =>
          LET H(email) == RequestPasswordReset(email, Code2, TRUE)
          IN  AllOrNone(H, WellFormed)
    /\ last'.op = "reset-password" =>
          LET H(email) == ResetPassword(email, Code2, "secret1")
          IN  AllOrNone(H, EmailVariants)
    /\ last'.op = "admin-users" =>
          LET method == IF last'.role = NoRole THEN "GET" ELSE "PUT"
              H(email) == AdminUsers(last'.bearer, method, email, last'.role)
          IN  AllOrNone(H, EmailVariants)
    /\ last'.op = "send-order" =>
          \A email \in EmailVariants :
             customerOrders' = setJSON(customerOrders, normalizeEmail(email),
                                       customerOrders'[normalizeEmail(email)])

-----------------------------------------------------------------------------
-----------------------------------------------------------------------------
\* the response request-password-reset gives for an email without a user
GenericSuccess(key) == Response("request-password-reset", key, <<>>, 200, "Ok")

\* C24: request-password-reset answers an email of a registered, verified
\* user whose reset email is delivered with the same generic success as an
\* email without a user; the reset code (attempts = 0, expiresAt = now + 30
\* minutes) is stored only for the verified user, and the request for an
\* email without a user changes no store.  (Violated: the response for the
\* registered user carries the email, the one for the unknown email does not.)
C24_ResetRequestIndistinguishable ==
    [][ (last'.op = "request-password-reset" /\ last'.status = 200) =>
          /\ last' = GenericSuccess(last'.key)
          /\ ~Has(users, last'.key) => UNCHANGED stores
          /\ reset' # reset => /\ Has(users, last'.key)
                               /\ users[last'.key].verified
                               /\ reset'[last'.key].attempts = 0
                               /\ reset'[last'.key].expiresAt = now + RESET_TTL ]_vars

-----------------------------------------------------------------------------
\* the step is a reset-password request that succeeded
ResetSucceeds == last'.op = "reset-password" /\ last'.status = 200

\* the step is handled right after a reset-password request for the same
\* email succeeded
AfterReset == last.op = "reset-password" /\ last.status = 200 /\ last'.key = last.key

\* what a reset with the stored code on an unexpired, unexhausted record
\* does, apart from what becomes of the old password
C25_Reset ==
    /\ (/\ last'.op = "reset-password"
        /\ Has(reset, last'.key)
        /\ reset[last'.key].attempts < 5
        /\ now <= reset[last'.key].expiresAt
        /\ last'.matched
        /\ Has(users, last'.key)) => ResetSucceeds
    /\ ResetSucceeds => /\ ~Has(reset', last'.key)
                        /\ users'[last'.key].verified
                        /\ users'[last'.key].passwordHash = hashPassword(last'.password)
    /\ (AfterReset /\ last'.op = "login") =>
          IF last'.password = last.password
          THEN last'.status = 200
          ELSE last'.status = 401 /\ last'.kind = "InvalidCredentials"
    /\ (AfterReset /\ last'.op = "reset-password") =>
          last'.status = 400 /\ last'.kind = "CodeNotFound"

\* C25 as stated: after the reset, for any new password, the password the
\* user had before no longer matches the stored hash.
C25_OldPasswordAlwaysFails ==
    [][ /\ C25_Reset
        /\ ResetSucceeds =>
              \A password \in Passwords :
                 users[last'.key].passwordHash = hashPassword(password)
                    => users'[last'.key].passwordHash # hashPassword(password) ]_vars

\* C25 (amended): a reset-password with the stored code on an unexpired
\* record with attempts < 5 succeeds, deletes the reset record and stores the
\* hash of the new password; a login that follows succeeds with the new
\* password and fails with InvalidCredentials with any other, the old
\* password included when the new one differs from it; a second
\* reset-password with the same code fails with CodeNotFound.
C25_ResetReplacesPassword ==
    [][ /\ C25_Reset
        /\ ResetSucceeds =>
              \A password \in Passwords \ {last'.password} :
                 users[last'.key].passwordHash = hashPassword(password)
                    => users'[last'.key].passwordHash # hashPassword(password) ]_vars

\* after a reset to a new password the login with the old one was refused
C25_Witness ==
    /\ last.op = "login"
    /\ last.kind = "InvalidCredentials"
    /\ last.password = "secret1"
    /\ Has(users, last.key)
    /\ users[last.key].passwordHash = hashPassword("hunter22")
    /\ ~Has(reset, last.key)

-----------------------------------------------------------------------------
\* the code most recently mailed to the email for the purpose, if any
Mailed(purpose, key, code) == Has(issued[purpose], key) /\ issued[purpose][key] = code

\* C26: the registration OTP and the password-reset code of an email are
\* independent records: register, resend-otp and verify-otp never create,
\* change or delete a reset record; request-password-reset and reset-password
\* never create, change or delete an OTP record; login and the clock touch
\* neither; a code mailed as an OTP and not as the reset code is never
\* accepted by reset-password, and a code mailed for reset and not as the OTP
\* is never accepted by verify-otp.
C26_CodesIndependent ==
    [][ /\ last'.op \in {"register", "resend-otp", "verify-otp"} => reset' = reset
        /\ last'.op \in {"request-password-reset", "reset-password"} => otp' = otp
        /\ last'.op \in {"login", "tick"} => otp' = otp /\ reset' = reset
        /\ last'.op = "reset-password" =>
              \A code \in SubmittedCodes, newPassword \in Passwords :
                 (/\ ResetPassword(CustomerInput, code, newPassword)
                  /\ Mailed("otp", last'.key, code)
                  /\ ~Mailed("reset", last'.key, code)) => last'.status # 200
        /\ last'.op = "verify-otp" =>
              \A code \in SubmittedCodes :
                 (/\ VerifyOtp(CustomerInput, code)
                  /\ Mailed("reset", last'.key, trim(code))
                  /\ ~Mailed("otp", last'.key, trim(code))) => last'.status # 200 ]_vars

\* the code that was mailed as the OTP was refused by reset-password while a
\* reset record with another code was stored
C26_Witness ==
    /\ last.op = "reset-password"
    /\ last.kind = "CodeMismatch"
    /\ Mailed("otp", last.key, Code1)
    /\ Has(reset, last.key)
    /\ reset[last.key].code = Code2
    /\ reset[last.key].attempts = 1

-----------------------------------------------------------------------------
(* The handlers of the code flows, one store call per step.  A request in    *)
(* flight occupies a slot of `requests`: a step performs the next store call *)
(* of the handler and the computation that follows it up to the next await,  *)
(* so that the steps of different requests interleave exactly where the      *)
(* handlers await the store.  The request completes, and `last` records its  *)
(* response, with its last store call.  Mails are taken to be delivered.     *)

\* otpStore of verify-otp, resetStore of reset-password
codeStore(purpose) == IF purpose = "otp" THEN otp ELSE reset

\* the store call of a step on otpStore or resetStore
writeCodeStore(purpose, value) ==
    IF purpose = "otp" THEN otp' = value /\ UNCHANGED reset
                       ELSE reset' = value /\ UNCHANGED otp

codeTTL(purpose) == IF purpose = "otp" THEN OTP_TTL ELSE RESET_TTL

attemptsExhausted(purpose, data) ==
    IF purpose = "otp" THEN otpAttemptsExhausted(data) ELSE resetAttemptsExhausted(data)

codeExpired(purpose, data) ==
    IF purpose = "otp" THEN otpExpired(data) ELSE resetExpired(data)

afterMismatch(purpose, data) ==
    IF purpose = "otp" THEN otpAfterMismatch(data) ELSE resetAfterMismatch(data)

\* the request of slot s returns `response`
respond(s, response) ==
    /\ requests' = [requests EXCEPT ![s] = Idle]
    /\ last' = response

\* the request of slot s awaits its next store call
await(s, request) ==
    /\ requests' = [requests EXCEPT ![s] = request]
    /\ UNCHANGED last

\* one more event of the kind `field` for the code of `purpose`
counted(field, purpose) ==
    [history EXCEPT ![field][purpose] = IF @ > MAX_ATTEMPTS THEN @ ELSE @ + 1]

\* the verify-otp and reset-password requests in flight
Verifying == {s \in Slots : requests[s].op \in {"verify-otp", "reset-password"}}

\* verify-otp / reset-password: validation and otpStore.get / resetStore.get,
\* then the attempts, expiry and comparison tests on the record read
CodeGet(s, purpose, email, code, newPassword) ==
    \E normalizedEmail \in {normalizeEmail(email)},
       submitted \in {IF purpose = "otp" THEN trim(code) ELSE code} :
    \E found \in {get(codeStore(purpose), normalizedEmail)} :
    LET op == IF purpose = "otp" THEN "verify-otp" ELSE "reset-password"
        request == [Idle EXCEPT !.op = op, !.purpose = purpose, !.key = normalizedEmail,
                                !.code = submitted, !.password = newPassword, !.data = found]
    IN  /\ requests[s] = Idle
        /\ UNCHANGED <<stores, now, ticks, otpStore, nextToken, issued>>
        /\ IF email = <<>> \/ code = <<>>
              \/ (purpose = "reset" /\ Len(newPassword) < MIN_PASSWORD_LENGTH)
           THEN /\ respond(s, Response(op, normalizedEmail, <<>>, 400, "ValidationError"))
                /\ UNCHANGED history
           ELSE IF found = {}
           THEN /\ respond(s, Response(op, normalizedEmail, <<>>, 400, "CodeNotFound"))
                /\ UNCHANGED history
           ELSE \E data \in found :
                IF attemptsExhausted(purpose, data)
                THEN /\ await(s, [request EXCEPT !.pc = "evict", !.kind = "AttemptsExhausted"])
                     /\ UNCHANGED history
                ELSE IF codeExpired(purpose, data)
                THEN /\ await(s, [request EXCEPT !.pc = "evict", !.kind = "CodeExpired"])
                     /\ UNCHANGED history
                ELSE IF data.code # submitted
                THEN /\ await(s, [request EXCEPT !.pc = "write-attempts", !.kind = "CodeMismatch",
                                                 !.data = {afterMismatch(purpose, data)}])
                     /\ history' = IF issued[purpose][normalizedEmail] = data.code
                                   THEN counted("guesses", purpose)
                                   ELSE history
                ELSE /\ await(s, [request EXCEPT !.pc = "read-user"])
                     /\ UNCHANGED history

\* otpStore.delete / resetStore.delete of a record that is used up or expired
CodeEvict(s) ==
    \E request \in {requests[s]} :
        /\ request.pc = "evict"
        /\ writeCodeStore(request.purpose, delete(codeStore(request.purpose), request.key))
        /\ \E data \in request.data :
               respond(s, CodeResponse(request.op, request.key, <<>>, 400, request.kind,
                                       data, request.code))
        /\ UNCHANGED <<users, sessions, orderVars, now, ticks, otpStore, nextToken, issued, history>>

\* otpStore.setJSON / resetStore.setJSON of the record read, with attempts + 1
CodeWriteAttempts(s) ==
    \E request \in {requests[s]} :
        /\ request.pc = "write-attempts"
        /\ \E data \in request.data :
               /\ writeCodeStore(request.purpose,
                                 setJSON(codeStore(request.purpose), request.key, data))
               /\ respond(s, [CodeResponse(request.op, request.key, <<>>, 400, request.kind,
                                           data, request.code)
                                EXCEPT !.remaining = 5 - data.attempts])
        /\ UNCHANGED <<users, sessions, orderVars, now, ticks, otpStore, nextToken, issued, history>>

\* usersStore.get after the code matched, then the change of the user record
UserGet(s) ==
    \E request \in {requests[s]} :
    \E found \in {get(users, request.key)} :
        /\ request.pc = "read-user"
        /\ UNCHANGED <<stores, now, ticks, otpStore, nextToken, issued, history>>
        /\ IF found = {}
           THEN \E data \in request.data :
                    respond(s, CodeResponse(request.op, request.key, <<>>, 400, "UserNotFound",
                                            data, request.code))
           ELSE \E user \in found :
                    await(s, [request EXCEPT !.pc = "write-user",
                                  !.user = {IF request.purpose = "otp"
                                            THEN verifiedUser(user)
                                            ELSE withNewPassword(user, request.password)}])

\* usersStore.setJSON of register, verify-otp and reset-password
UserSet(s) ==
    \E request \in {requests[s]} :
        /\ request.pc = "write-user"
        /\ \E user \in request.user : users' = setJSON(users, request.key, user)
        /\ await(s, [request EXCEPT !.pc = IF request.op = "register" THEN "write-code"
                                                                      ELSE "delete-code"])
        /\ UNCHANGED <<otp, reset, sessions, orderVars, now, ticks, otpStore, nextToken, issued, history>>

\* otpStore.delete / resetStore.delete of the code that was accepted
CodeDelete(s) ==
    \E request \in {requests[s]} :
        /\ request.pc = "delete-code"
        /\ writeCodeStore(request.purpose, delete(codeStore(request.purpose), request.key))
        /\ await(s, [request EXCEPT !.pc = "write-session"])
        /\ UNCHANGED <<users, sessions, orderVars, now, ticks, otpStore, nextToken, issued, history>>

\* sessionsStore.setJSON and the success response; the success counts for the
\* code most recently issued when no issue happened since the request read it
SessionSet(s) ==
    \E request \in {requests[s]} :
        /\ request.pc = "write-session"
        /\ \E user \in request.user, data \in request.data :
               /\ sessions' = setJSON(sessions, nextToken, newSession(user, NoRole))
               /\ respond(s, [CodeResponse(request.op, request.key, user.email, 200, "Ok",
                                           data, request.code)
                                EXCEPT !.sessionToken = nextToken,
                                       !.password = request.password])
        /\ nextToken' = nextToken + 1
        /\ history' = [IF ~request.stale /\ issued[request.purpose][request.key] = request.code
                       THEN counted("accepted", request.purpose)
                       ELSE history
                          EXCEPT !.password = IF request.purpose = "reset"
                                              THEN request.password ELSE @]
        /\ UNCHANGED <<users, otp, reset, orderVars, now, ticks, otpStore, issued>>

\* register: validation, usersStore.get, and the new user record
RegisterGet(s, name, email, phone, password) ==
    \E normalizedEmail \in {normalizeEmail(email)} :
    \E existingUser \in {get(users, normalizedEmail)} :
    LET request == [Idle EXCEPT !.op = "register", !.purpose = "otp", !.key = normalizedEmail,
                                !.password = password]
        user == [id |-> randomUUID, name |-> trim(name), email |-> normalizedEmail,
                 phone |-> trim(phone), passwordHash |-> hashPassword(password),
                 verified |-> FALSE, role |-> userRole(normalizedEmail, NoRole)]
    IN  /\ requests[s] = Idle
        /\ UNCHANGED <<stores, now, ticks, otpStore, nextToken, issued, history>>
        /\ IF name = <<>> \/ email = <<>> \/ phone = <<>> \/ ~emailRegex(email)
              \/ Len(password) < MIN_PASSWORD_LENGTH
           THEN respond(s, Response("register", normalizedEmail, <<>>, 400, "ValidationError"))
           ELSE IF \E u \in existingUser : u.verified
           THEN respond(s, Response("register", normalizedEmail, <<>>, 400, "EmailAlreadyRegistered"))
           ELSE await(s, [request EXCEPT !.pc = "write-user", !.user = {user}])

\* resend-otp (either variant): usersStore.get
ResendOtpGet(s, email) ==
    \E normalizedEmail \in {normalizeEmail(email)} :
    \E found \in {get(users, normalizedEmail)} :
    LET request == [Idle EXCEPT !.op = "resend-otp", !.purpose = "otp", !.key = normalizedEmail]
    IN  /\ requests[s] = Idle
        /\ UNCHANGED <<stores, now, ticks, otpStore, nextToken, issued, history>>
        /\ IF email = <<>>
           THEN respond(s, Response("resend-otp", normalizedEmail, <<>>, 400, "ValidationError"))
           ELSE IF found = {}
           THEN respond(s, Response("resend-otp", normalizedEmail, <<>>, 400, "UserNotFound"))
           ELSE IF \E user \in found : user.verified
           THEN respond(s, Response("resend-otp", normalizedEmail, <<>>, 400, "AlreadyVerified"))
           ELSE await(s, [request EXCEPT !.pc = "write-code"])

\* request-password-reset: usersStore.get
RequestPasswordResetGet(s, email) ==
    \E normalizedEmail \in {normalizeEmail(email)} :
    \E found \in {get(users, normalizedEmail)} :
    LET op == "request-password-reset"
        request == [Idle EXCEPT !.op = op, !.purpose = "reset", !.key = normalizedEmail]
    IN  /\ requests[s] = Idle
        /\ UNCHANGED <<stores, now, ticks, otpStore, nextToken, issued, history>>
        /\ IF email = <<>> \/ ~emailRegex(email)
           THEN respond(s, Response(op, normalizedEmail, <<>>, 400, "ValidationError"))
           ELSE IF found = {}
           THEN respond(s, Response(op, normalizedEmail, <<>>, 200, "Ok"))
           ELSE IF \E user \in found : ~user.verified
           THEN respond(s, Response(op, normalizedEmail, normalizedEmail, 400, "NotVerified"))
           ELSE await(s, [request EXCEPT !.pc = "write-code"])

\* register, resend-otp, request-password-reset: the code is generated, the
\* record written with otpStore.setJSON / resetStore.setJSON and the code
\* mailed; the request completes.  The history of the purpose starts again and
\* the verifications in flight are marked as begun before this issue.
CodeSet(s, code) ==
    \E request \in {requests[s]} :
        /\ request.pc = "write-code"
        /\ writeCodeStore(request.purpose,
                          setJSON(codeStore(request.purpose), request.key,
                                  newCodeData(code, request.key, codeTTL(request.purpose))))
        /\ issued' = issue(request.purpose, request.key, code)
        /\ history' = [history EXCEPT !.guesses[request.purpose] = 0,
                                      !.accepted[request.purpose] = 0]
        /\ requests' = [t \in Slots |->
                           IF t = s THEN Idle
                           ELSE IF requests[t].purpose = request.purpose /\ t \in Verifying
                           THEN [requests[t] EXCEPT !.stale = TRUE]
                           ELSE requests[t]]
        /\ last' = Response(request.op, request.key,
                            IF request.op = "resend-otp" THEN <<>> ELSE request.key, 200, "Ok")
        /\ UNCHANGED <<users, sessions, orderVars, now, ticks, otpStore, nextToken>>

\* PUT /api/admin/users/:email, one store call per step: checkAdminAccess
\* (sessionsStore.get) and the validation of the role
AdminUsersAccess(s, sessionToken, userEmail, role) ==
    \E normalizedEmail \in {normalizeEmail(userEmail)}, accessCheck \in {checkAdminAccess(sessionToken)} :
    LET R(status, kind) == [Response("admin-users", <<>>, <<>>, status, kind)
                              EXCEPT !.bearer = sessionToken,
                                     !.authenticated = accessCheck \in {"Ok", "Forbidden"},
                                     !.role = role]
    IN  /\ requests[s] = Idle
        /\ sessions' = checkAdminAccessSessions(sessionToken)
        /\ UNCHANGED <<users, otp, reset, orderVars, now, ticks, otpStore, nextToken, issued, history>>
        /\ IF accessCheck # "Ok"
           THEN respond(s, R(403, accessCheck))
           ELSE IF role = NoRole \/ role \notin validRoles
           THEN respond(s, R(400, "ValidationError"))
           ELSE await(s, [Idle EXCEPT !.op = "admin-users", !.pc = "read-role-user",
                                      !.key = normalizedEmail, !.bearer = sessionToken,
                                      !.role = role])

\* usersStore.get of the role update, then user.role = role
AdminUsersGet(s) ==
    \E request \in {requests[s]} :
    \E found \in {get(users, request.key)} :
        /\ request.pc = "read-role-user"
        /\ UNCHANGED <<stores, now, ticks, otpStore, nextToken, issued, history>>
        /\ IF found = {}
           THEN respond(s, [Response("admin-users", <<>>, <<>>, 404, "UserNotFound")
                              EXCEPT !.bearer = request.bearer, !.authenticated = TRUE,
                                     !.role = request.role])
           ELSE \E user \in found :
                    await(s, [request EXCEPT !.pc = "write-role-user",
                                             !.user = {[user EXCEPT !.role = request.role]}])

\* usersStore.setJSON of the role update and its success response
AdminUsersSet(s) ==
    \E request \in {requests[s]} :
        /\ request.pc = "write-role-user"
        /\ \E user \in request.user :
               /\ users' = setJSON(users, request.key, user)
               /\ respond(s, [Response("admin-users", <<>>, user.email, 200, "Ok")
                                EXCEPT !.bearer = request.bearer, !.authenticated = TRUE,
                                       !.role = request.role])
        /\ history' = [history EXCEPT !.role = request.role]
        /\ UNCHANGED <<otp, reset, sessions, orderVars, now, ticks, otpStore, nextToken, issued>>

\* no request is in flight
Quiet == \A s \in Slots : requests[s] = Idle

\* The OTP flow of one email: register, resend-otp and verify-otp interleaved.
\* Every request in flight that can end in a session has a token left.
NextFlight ==
    \/ \E s \in Slots : RegisterGet(s, <<"A", "n", "a">>, CustomerInput, <<"8", "2">>, "secret1")
    \/ \E s \in Slots : ResendOtpGet(s, CustomerInput)
    \/ \E s \in Slots, code \in Codes :
           /\ nextToken + Cardinality(Verifying) <= MaxSessions
           /\ CodeGet(s, "otp", CustomerInput, code, "")
    \/ \E s \in Slots : CodeEvict(s)
    \/ \E s \in Slots : CodeWriteAttempts(s)
    \/ \E s \in Slots : UserGet(s)
    \/ \E s \in Slots : UserSet(s)
    \/ \E s \in Slots : CodeDelete(s)
    \/ \E s \in Slots : SessionSet(s)
    \/ \E s \in Slots, code \in Codes : CodeSet(s, code)

SpecFlight == Init /\ [][NextFlight]_vars

\* The reset flow of one email: the account is registered and verified by
\* requests that overlap no other, then request-password-reset and
\* reset-password are interleaved.
NextFlightReset ==
    \/ /\ Quiet
       /\ ~Has(users, normalizeEmail(CustomerInput))
       /\ Register(<<"A", "n", "a">>, CustomerInput, <<"8", "2">>, "secret1", NoRole, Code1, TRUE)
    \/ /\ Quiet
       /\ VerifyOtp(CustomerInput, Code1)
    \/ \E s \in Slots : RequestPasswordResetGet(s, CustomerInput)
    \/ \E s \in Slots, code \in Codes :
           /\ nextToken + Cardinality(Verifying) <= MaxRoleSessions
           /\ CodeGet(s, "reset", CustomerInput, code, "hunter22")
    \/ \E s \in Slots : CodeEvict(s)
    \/ \E s \in Slots : CodeWriteAttempts(s)
    \/ \E s \in Slots : UserGet(s)
    \/ \E s \in Slots : UserSet(s)
    \/ \E s \in Slots : CodeDelete(s)
    \/ \E s \in Slots : SessionSet(s)
    \/ \E s \in Slots, code \in Codes : CodeSet(s, code)

SpecFlightReset == Init /\ [][NextFlightReset]_vars

\* Two writers of one user record: an administrator and a customer are set up
\* by requests that overlap no other; then the customer's reset-password and
\* the administrator's role update of the customer are interleaved.
NextFlightRole ==
    \/ /\ Quiet
       /\ \E email \in {AdminInput, CustomerInput} :
             /\ ~Has(users, normalizeEmail(email))
             /\ Register(<<"A", "n", "a">>, email, <<"8", "2">>, "secret1", NoRole, Code1, TRUE)
    \/ /\ Quiet
       /\ nextToken <= MaxRoleSessions
       /\ \E email \in {AdminInput, CustomerInput} : VerifyOtp(email, Code1)
    \/ /\ Quiet
       /\ nextToken <= MaxRoleSessions
       /\ Login(AdminInput, "secret1")
    \/ /\ Quiet
       /\ ~Has(reset, normalizeEmail(CustomerInput))
       /\ RequestPasswordReset(CustomerInput, Code2, TRUE)
    \/ \E s \in Slots :
           /\ nextToken + Cardinality(Verifying) <= MaxRoleSessions
           /\ CodeGet(s, "reset", CustomerInput, Code2, "hunter22")
    \/ \E s \in Slots : UserGet(s)
    \/ \E s \in Slots : UserSet(s)
    \/ \E s \in Slots : CodeDelete(s)
    \/ \E s \in Slots : SessionSet(s)
    \/ \E s \in Slots, token \in RoleBearers, role \in {"cliente", "supervisor"} :
           AdminUsersAccess(s, token, CustomerInput, role)
    \/ \E s \in Slots : AdminUsersGet(s)
    \/ \E s \in Slots : AdminUsersSet(s)

SpecFlightRole == Init /\ [][NextFlightRole]_vars

\* send-order: ordersStore.setJSON of the new order
SendOrderSet(s, orderNumber, customerEmail) ==
    /\ requests[s] = Idle
    /\ orders' = setJSON(orders, orderNumber, newOrder(orderNumber, customerEmail))
    /\ await(s, [Idle EXCEPT !.op = "send-order", !.pc = "read-customer-orders",
                             !.key = normalizeEmail(customerEmail),
                             !.orderNumber = orderNumber])
    /\ UNCHANGED <<users, otp, reset, sessions, customerOrders, now, ticks, otpStore, nextToken,
                   issued, history>>

\* send-order: ordersStore.get of the customer's list, then the unshift
SendOrderGetList(s) ==
    \E request \in {requests[s]} :
    \E existingOrders \in {get(customerOrders, request.key)} :
        /\ request.pc = "read-customer-orders"
        /\ await(s, [request EXCEPT
                       !.pc = "write-customer-orders",
                       !.data = {<<request.orderNumber>> \o
                                 (IF existingOrders = {} THEN <<>>
                                  ELSE CHOOSE list \in existingOrders : TRUE)}])
        /\ UNCHANGED <<stores, now, ticks, otpStore, nextToken, issued, history>>

\* send-order: ordersStore.set of the customer's list and the success response
SendOrderSetList(s) ==
    \E request \in {requests[s]} :
        /\ request.pc = "write-customer-orders"
        /\ \E customerOrdersList \in request.data :
               customerOrders' = setJSON(customerOrders, request.key, customerOrdersList)
        /\ respond(s, Response("send-order", request.key, <<>>, 200, "Ok"))
        /\ UNCHANGED <<users, otp, reset, sessions, orders, now, ticks, otpStore, nextToken,
                       issued, history>>

\* the send-order requests in flight
Sending == {s \in Slots : requests[s].op = "send-order"}

\* the order numbers of the customer's list, none before the first order
ordersOf(customerEmail) ==
    IF Has(customerOrders, normalizeEmail(customerEmail))
    THEN customerOrders[normalizeEmail(customerEmail)] ELSE <<>>

FlightOrderNumbers == {"AYR-1", "AYR-2"}

\* Order creation of two customers, interleaved at the store calls.  A request
\* starts while the customer's list and the requests in flight together stay
\* within the number of request slots.
NextFlightOrders ==
    \/ \E s \in Slots, orderNumber \in FlightOrderNumbers,
          customerEmail \in {CustomerInput, AdminInput} :
           /\ Len(ordersOf(customerEmail)) + Cardinality(Sending) < MaxRequests
           /\ SendOrderSet(s, orderNumber, customerEmail)
    \/ \E s \in Slots : SendOrderGetList(s)
    \/ \E s \in Slots : SendOrderSetList(s)

SpecFlightOrders == Init /\ [][NextFlightOrders]_vars

PhoneInputs == {<<>>, <<"8", "2">>, <<"8", "4">>}

PhoneExpiries ==
    UNION {{otpStore[module][phone].expires : phone \in DOMAIN otpStore[module]} :
             module \in PhoneModules}

\* The phone codes: send-otp and verify-otp requests, one at a time, and the
\* clock advancing onto and past the expiry of a stored code.
NextPhone ==
    \/ \E phone \in PhoneInputs, otpCode \in Codes : SendOtp(phone, otpCode)
    \/ \E phone \in PhoneInputs, code \in Codes \cup {<<>>} : VerifyPhoneOtp(phone, code)
    \/ \E t \in Instants(PhoneExpiries) : Tick(t)

SpecPhone == Init /\ [][NextPhone]_vars

-----------------------------------------------------------------------------
(* Claims about requests that interleave at their store calls *)

Purposes == {"otp", "reset"}

\* C27: between two issues, at most five submissions are compared against the
\* issued code and found different, for the OTP and for the reset code, however
\* the requests interleave at their store calls.
C27_GuessesBounded ==
    \A purpose \in Purposes : history.guesses[purpose] <= MAX_ATTEMPTS

\* C28: an issued code is single-use under every interleaving: of the verify-otp
\* or reset-password requests that read the record of one issue, at most one
\* ends in success and so at most one session is created from the code.
C28_SingleUse ==
    \A purpose \in Purposes : history.accepted[purpose] <= 1

\* the request of slot s found the submitted code equal to the stored one
Matched(s) ==
    /\ s \in Verifying
    /\ requests[s].pc \in {"read-user", "write-user", "delete-code", "write-session"}

\* C29: once an issue request has completed, the stored record of the purpose
\* carries the code of that issue and no earlier one (a verify that read the
\* earlier record does not write it back), and a request that reads the record
\* after the issue accepts no other code than the one issued.
C29_EarlierCodeGone ==
    /\ \A purpose \in Purposes : \A key \in DOMAIN codeStore(purpose) :
           codeStore(purpose)[key].code = issued[purpose][key]
    /\ \A s \in Slots :
           Matched(s) /\ ~requests[s].stale
               => requests[s].code = issued[requests[s].purpose][requests[s].key]

\* C30: verification is one-way: a stored user with verified = true stays
\* stored and verified with the same id under every step of every interleaving,
\* and its passwordHash changes only by the write of a reset-password request.
C30_VerifiedOneWay ==
    [][\A key \in DOMAIN users :
           users[key].verified
               => /\ Has(users', key)
                  /\ users'[key].verified
                  /\ users'[key].id = users[key].id
                  /\ \/ users'[key].passwordHash = users[key].passwordHash
                     \/ \E s \in Slots : /\ requests[s].op = "reset-password"
                                         /\ requests[s].pc = "write-user"]_vars

-----------------------------------------------------------------------------
(* An allow-listed user and a customer, with every request that writes the   *)
(* users store: the customer registers again while unverified and supplies   *)
(* a role, resets the password, logs out and places and lists orders.        *)

NextPrivilege ==
    \/ /\ ~Has(otp, normalizeEmail(AdminInput))
       /\ \E name \in Names, phone \in Phones :
             Register(name, AdminInput, phone, "secret1", NoRole, Code1, TRUE)
    \/ \E name \in Names, phone \in Phones, role \in SuppliedRoles :
          Register(name, CustomerInput, phone, "secret1", role, Code1, TRUE)
    \/ ResendOtpB(CustomerInput, Code1, TRUE)
    \/ nextToken <= MaxSessions /\ \E email \in {AdminInput, CustomerInput} : VerifyOtp(email, Code1)
    \/ nextToken <= MaxSessions /\ \E email \in {AdminInput, CustomerInput} : Login(email, "secret1")
    \/ RequestPasswordReset(CustomerInput, Code2, TRUE)
    \/ nextToken <= MaxSessions /\ ResetPassword(CustomerInput, Code2, "secret1")
    \/ \E token \in Bearers : Logout(token)
    \/ \E token \in Bearers, role \in {"cliente", "supervisor"} :
          AdminUsers(token, "PUT", CustomerInput, role)
    \/ \E token \in Bearers : AdminUsers(token, "PUT", AdminInput, "cliente")
    \/ AdminBootstrap
    \/ \E orderNumber \in OrderNumbers : SendOrder(orderNumber, CustomerInput)
    \/ \E token \in Bearers : \E updates \in OrderUpdates : Orders(token, "list", "", updates)

SpecPrivilege == Init /\ [][NextPrivilege]_vars

-----------------------------------------------------------------------------
(* Checkout: orders are placed for the customer (with the email as typed,    *)
(* padded, or in the name of the other user), paid by the customer and       *)
(* updated by the administrator, with statuses inside and outside the        *)
(* enumerations.                                                             *)

\* customerEmail values of an order body
CheckoutEmails == {CustomerInput, <<" ">> \o CustomerInput, AdminInput}

\* bodies of the PUT on an order: statuses of the enumerations, and a string outside them
CheckoutUpdates ==
    {[orderStatus |-> "entregue", paymentStatus |-> "confirmado"],
     [orderStatus |-> "enviado", paymentStatus |-> ""]}

NextCheckout ==
    \/ \E email \in {AdminInput, CustomerInput} :
          /\ ~Has(users, normalizeEmail(email))
          /\ Register(<<"A", "n", "a">>, email, <<"8", "2">>, "secret1", NoRole, Code1, TRUE)
    \/ nextToken <= MaxRoleSessions /\ \E email \in {AdminInput, CustomerInput} : VerifyOtp(email, Code1)
    \/ nextToken <= MaxRoleSessions /\ Login(AdminInput, "secret1")
    \/ \E orderNumber \in OrderNumbers, customerEmail \in CheckoutEmails :
          SendOrder(orderNumber, customerEmail)
    \/ \E token \in RoleBearers, route \in {"list", "get", "confirm-payment"},
          orderNumber \in OrderNumbers, updates \in OrderUpdates :
          Orders(token, route, orderNumber, updates)
    \/ \E token \in RoleBearers, orderNumber \in OrderNumbers, updates \in CheckoutUpdates :
          Orders(token, "put", orderNumber, updates)

SpecCheckout == Init /\ [][NextCheckout]_vars

-----------------------------------------------------------------------------
(* Claims about the two code verifications, the register mail and privilege *)

\* the code records stored for either purpose
StoredCodeRecords == {otp[k] : k \in DOMAIN otp} \cup {reset[k] : k \in DOMAIN reset}

\* C31: verify-otp and reset-password are the same procedure on the code
\* record: for every stored record (and for no record), the present clock and
\* every submitted string, padded codes included, the two handlers reach the
\* same verdict and a mismatch changes the record in the same way.
C31_SameVerification ==
    /\ \A code \in SubmittedCodes : otpVerdict({}, code) = resetVerdict({}, code)
    /\ \A data \in StoredCodeRecords, code \in SubmittedCodes :
           /\ otpVerdict({data}, code) = resetVerdict({data}, code)
           /\ otpAfterMismatch(data) = resetAfterMismatch(data)

\* C32: a register whose mail could not be sent is rejected (status 500) and
\* leaves the users and OTP stores as they were before the request.
C32_FailedMailRegistersNothing ==
    [][last'.op = "register" /\ last'.kind = "DependencyError"
           => /\ last'.status = 500
              /\ users' = users
              /\ otp' = otp]_vars

\* the role of a user that is not allow-listed changes in the step
RoleChanged(key) ==
    /\ Has(users, key)
    /\ Has(users', key)
    /\ users'[key].role # users[key].role
    /\ ~isInitialAdmin(key)

\* admin-bootstrap changes nothing but the role of allow-listed users, which
\* becomes administrador, and a second call would change nothing
BootstrapFrame ==
    last'.op = "admin-bootstrap" =>
        /\ DOMAIN users' = DOMAIN users
        /\ \A key \in DOMAIN users :
               users'[key] # users[key]
                   => /\ isInitialAdmin(key)
                      /\ users'[key] = [users[key] EXCEPT !.role = "administrador"]
        /\ bootstrapUsers(users', INITIAL_ADMIN_EMAILS) = users'

\* C33: a user that is not allow-listed is created with role cliente, and no
\* request changes the stored role of such a user but a role update made with
\* a valid session of role administrador; admin-bootstrap changes nothing but
\* the role of allow-listed users and is idempotent.
C33_RoleNeverChangesOtherwise ==
    [][ /\ \A key \in DOMAIN users' :
               /\ ~Has(users, key) /\ ~isInitialAdmin(key) => users'[key].role = "cliente"
               /\ RoleChanged(key) => /\ last'.op = "admin-users"
                                      /\ AdminSession(last'.bearer)
        /\ BootstrapFrame ]_vars

\* C33 as amended: a user that is not allow-listed is created with role
\* cliente; the stored role of such a user changes only by a role update made
\* with a valid session of role administrador, or by a register of the still
\* unverified user, which stores cliente again; admin-bootstrap changes
\* nothing but the role of allow-listed users and is idempotent.
C33_PrivilegePaths ==
    [][ /\ \A key \in DOMAIN users' :
               /\ ~Has(users, key) /\ ~isInitialAdmin(key) => users'[key].role = "cliente"
               /\ RoleChanged(key) => \/ /\ last'.op = "admin-users"
                                         /\ AdminSession(last'.bearer)
                                      \/ /\ last'.op = "register"
                                         /\ ~users[key].verified
                                         /\ users'[key].role = "cliente"
        /\ BootstrapFrame ]_vars

\* admin-bootstrap was called while the customer holds the role supervisor,
\* given by an administrator, and left it as it was
C33_Witness ==
    /\ last.op = "admin-bootstrap"
    /\ Has(users, AnaEmail)
    /\ users[AnaEmail].role = "supervisor"
    /\ Has(users, AdminEmail)
    /\ users[AdminEmail].role = "administrador"

\* C34: concurrent writers of one user record do not lose each other's
\* changes: once the interleaved reset-password and role update requests for
\* the customer have all completed, the stored record carries the password
\* hash of the last reset reported as successful and the role of the last
\* role update reported as successful.
C34_NoLostUpdate ==
    Quiet /\ Has(users, AnaEmail)
        => /\ history.password # ""
                  => users[AnaEmail].passwordHash = hashPassword(history.password)
           /\ history.role # NoRole
                  => users[AnaEmail].role = history.role

-----------------------------------------------------------------------------
(* Claims about orders *)

\* C35: an orderNumber identifies at most one order and orders are never lost:
\* an order-creation request leaves every order record that already exists as
\* it is (customer fields, paymentStatus, orderStatus, paidAt), and no step
\* removes an order.
C35_OrderNeverReplaced ==
    [][ /\ DOMAIN orders \subseteq DOMAIN orders'
        /\ last'.op = "send-order"
               => \A orderNumber \in DOMAIN orders : orders'[orderNumber] = orders[orderNumber] ]_vars

\* type OrderStatus
OrderStatus == {"pendente", "em_preparacao", "em_entrega", "entregue", "pago", "cancelado"}

\* type PaymentStatus
PaymentStatus == {"aguardando_pagamento", "pago", "confirmado"}

\* C37: every stored order has its paymentStatus in PaymentStatus (awaiting
\* payment, paid, confirmed) and its orderStatus in OrderStatus (pending,
\* preparing, out for delivery, delivered, paid, cancelled), after creation,
\* payment confirmation and status updates alike.
C37_StatusesEnumerated ==
    \A orderNumber \in DOMAIN orders :
        /\ orders[orderNumber].paymentStatus \in PaymentStatus
        /\ orders[orderNumber].orderStatus \in OrderStatus

\* the session of token `t` is stored and not expired
ValidSession(t) ==
    /\ t # NoToken
    /\ Has(sessions, t)
    /\ sessions[t].expiresAt >= now

\* the session of token `t` belongs to the customer of the order
OwnerSession(t, orderNumber) ==
    /\ ValidSession(t)
    /\ Has(orders, orderNumber)
    /\ normalizeEmail(orders[orderNumber].customerEmail) = normalizeEmail(sessions[t].email)

\* C38: the payment confirmation succeeds only for a valid session whose email
\* is the order's customer email; any other valid session, whatever its role,
\* gets Forbidden for a stored order; a request that does not succeed leaves
\* the orders unchanged, and a success changes the one order only in
\* paymentStatus (paid), paymentConfirmedByCustomer (true) and paidAt (now).
C38_ConfirmPayment ==
    [][ last'.op = "orders" /\ last'.key[1] = "confirm-payment" =>
          /\ last'.status = 200 => OwnerSession(last'.bearer, last'.key[2])
          /\ (/\ ValidSession(last'.bearer)
              /\ Has(orders, last'.key[2])
              /\ ~OwnerSession(last'.bearer, last'.key[2]))
                 => last'.status = 403
          /\ last'.status # 200 => orders' = orders
          /\ last'.status = 200 =>
                 orders' = setJSON(orders, last'.key[2],
                                   [orders[last'.key[2]] EXCEPT !.paymentStatus = "pago",
                                                                !.paymentConfirmedByCustomer = TRUE,
                                                                !.paidAt = now])
          /\ UNCHANGED customerOrders ]_vars

\* the customer confirmed the payment of an order that the administrator, who
\* is not its owner, had set to delivered: the orderStatus is as it was
C38_Witness ==
    /\ last.op = "orders"
    /\ last.key[1] = "confirm-payment"
    /\ last.status = 200
    /\ sessions[last.bearer].role # "administrador"
    /\ orders[last.key[2]].paymentStatus = "pago"
    /\ orders[last.key[2]].paymentConfirmedByCustomer
    /\ orders[last.key[2]].orderStatus = "entregue"


\* the orders the list route returns for the session of token t: the order
\* numbers of customer-orders:<session email, lower-cased and trimmed> whose
\* order record exists
listedOrders(t) ==
    LET customerEmail == normalizeEmail(sessions[t].email)
        orderNumbers == IF Has(customerOrders, customerEmail)
                        THEN customerOrders[customerEmail] ELSE <<>>
    IN  {orderNumbers[i] : i \in {j \in 1..Len(orderNumbers) : Has(orders, orderNumbers[j])}}

\* C39: every order the list route returns for a valid session is one the
\* single-order route gives to that same session without Forbidden, whatever
\* spelling of the customer email the order was created with: the session is
\* the order's owner in the single-order route's comparison, or a manager
C39_ListedOrdersReadable ==
    \A t \in DOMAIN sessions :
        ValidSession(t) =>
            \A orderNumber \in listedOrders(t) :
                \/ isOwner(orders[orderNumber], sessions[t])
                \/ canManageOrders(sessions[t].role)


\* C36: once no order creation is in flight, every order that was created is
\* in the customer-orders list of its customer, also when the creations of
\* one customer were interleaved
C36_CreatedOrdersIndexed ==
    Quiet =>
        \A orderNumber \in DOMAIN orders :
            \E i \in DOMAIN ordersOf(orders[orderNumber].customerEmail) :
                ordersOf(orders[orderNumber].customerEmail)[i] = orderNumber


-----------------------------------------------------------------------------
(* Claim about the codes keyed by phone *)

\* the code send-otp holds for the phone, issued and not yet used
IssuedForPhone(phone) == get(otpStore["send-otp"], phone)

\* C40: a verify-otp request that submits, with the same phone and no later
\* than its expiry, the code send-otp issued for that phone answers success,
\* and the success removes the issued code, so that submitting it again fails
C40_PhoneCodeAccepted ==
    [][ \A phone \in PhoneInputs, code \in Codes :
            ( /\ IssuedForPhone(phone) # {}
              /\ \A stored \in IssuedForPhone(phone) :
                     stored.code = code /\ now <= stored.expires
              /\ VerifyPhoneOtp(phone, code) )
                => /\ last'.status = 200
                   /\ ~Has(otpStore'["send-otp"], phone) ]_vars

=============================================================================
